---- MODULE Spec2Model ----
(***************************************************************************)
(* The chat route (app/(chat)/api/chat/route.ts): one POST request at a    *)
(* time runs through its pre-stream checks, the stream's execute callback, *)
(* the provider usage callback and the onFinish finalization, against a    *)
(* persistent store of chats, messages and stream ids.                     *)
(***************************************************************************)
EXTENDS Integers, Sequences, FiniteSets, TLC

\* ---------------------------------------------------------------- bounds
MaxRequests == 2
\* token counter calls: the longest text and the longest message list
MaxTextLen == 3
MaxMsgs == 2

Users == {"u1", "u2"}
ChatIds == {"c1"}
NoUser == "none"

\* option values: null/undefined is the empty sequence
None == <<>>
Some(x) == <<x>>
IsSome(o) == o # <<>>
\* an absent (undefined) numeric field of the provider's usage object
Absent == -1

\* ---------------------------------------------------------------- content
TextPart(t) == [type |-> "text", text |-> t, state |-> "na"]
ToolPart(s) == [type |-> "tool", text |-> <<>>, state |-> s]

\* parts a client sends in a new message
ClientParts == { <<TextPart(<<"a", "b">>)>> }
\* parts the model produces for the response message
AsstParts == { <<TextPart(<<"a">>), TextPart(<<"b">>)>>,
               <<ToolPart("result"), TextPart(<<"b">>)>> }

\* model ids as sequences of fragments; includes() is fragment membership
ModelIds == { <<"openai/", "gpt-3.5", "-turbo">>, <<"anthropic/", "claude">> }
includes(s, frag) == \E i \in DOMAIN s : s[i] = frag

\* the system prompt text handed to the model
systemPrompt(modelId) == <<"a", "b">>

\* provider usage objects (null, or fields that may be absent or zero)
UsageSignals ==
  { None,
    Some([inputTokens |-> 5, outputTokens |-> 7, totalTokens |-> 150]),
    Some([inputTokens |-> 5, outputTokens |-> 7, totalTokens |-> Absent]),
    Some([inputTokens |-> 5, outputTokens |-> 7, totalTokens |-> 0]),
    Some([inputTokens |-> Absent, outputTokens |-> 7, totalTokens |-> 9]),
    Some([inputTokens |-> Absent, outputTokens |-> Absent, totalTokens |-> Absent]) }

\* ---------------------------------------------------------------- token counter
\* the two tests in the other order: "gpt-3.5" looked for first
getEncodingModelNameOldFirst(modelId) ==
  IF includes(modelId, "gpt-3.5") THEN "gpt-3.5-turbo"
  ELSE IF includes(modelId, "gpt-4") THEN "gpt-4"
  ELSE "gpt-4"

getEncodingModelName(modelId) ==
  IF includes(modelId, "gpt-4") THEN "gpt-4"
  ELSE IF includes(modelId, "gpt-3.5") THEN "gpt-3.5-turbo"
  ELSE "gpt-4"

\* encoding.encode(text).length: the gpt-4 table merges the pair "a","b" into
\* one token, the gpt-3.5-turbo table has no merges
RECURSIVE encodeLength(_, _)
encodeLength(modelName, text) ==
  IF Len(text) = 0 THEN 0
  ELSE IF modelName = "gpt-4" /\ Len(text) >= 2 /\ text[1] = "a" /\ text[2] = "b"
       THEN 1 + encodeLength(modelName, SubSeq(text, 3, Len(text)))
       ELSE 1 + encodeLength(modelName, Tail(text))

CeilDiv4(n) == (n + 3) \div 4

RECURSIVE SumSeq(_)
SumSeq(s) == IF s = <<>> THEN 0 ELSE Head(s) + SumSeq(Tail(s))

\* the text parts of one message, in order
TextsOf(parts) ==
  LET idx == SelectSeq([i \in DOMAIN parts |-> i], LAMBDA i : parts[i].type = "text")
  IN [k \in DOMAIN idx |-> parts[idx[k]].text]

\* the character count taken over the message texts alone
roughTokenEstimateNoSystem(msgs, sys) ==
  CeilDiv4(SumSeq([i \in DOMAIN msgs |->
                    SumSeq([k \in DOMAIN TextsOf(msgs[i].parts) |->
                             Len(TextsOf(msgs[i].parts)[k])])]))

roughTokenEstimate(msgs, sys) ==
  CeilDiv4(Len(sys)
           + SumSeq([i \in DOMAIN msgs |->
                      SumSeq([k \in DOMAIN TextsOf(msgs[i].parts) |->
                               Len(TextsOf(msgs[i].parts)[k])])]))

\* the formatting overhead added inside the loop over the parts: 4 per part
countTokensOverheadPerPart(msgs, sys, modelId, encOk) ==
  IF encOk
  THEN LET name == getEncodingModelName(modelId)
       IN (IF Len(sys) > 0 THEN encodeLength(name, sys) ELSE 0)
          + SumSeq([i \in DOMAIN msgs |->
                     SumSeq([k \in DOMAIN TextsOf(msgs[i].parts) |->
                              encodeLength(name, TextsOf(msgs[i].parts)[k])])
                     + 4 * Len(msgs[i].parts)])
          + 3
  ELSE roughTokenEstimate(msgs, sys)

\* encOk = FALSE: encodingForModel throws and the catch branch runs
countTokens(msgs, sys, modelId, encOk) ==
  IF encOk
  THEN LET name == getEncodingModelName(modelId)
       IN (IF Len(sys) > 0 THEN encodeLength(name, sys) ELSE 0)
          + SumSeq([i \in DOMAIN msgs |->
                     SumSeq([k \in DOMAIN TextsOf(msgs[i].parts) |->
                              encodeLength(name, TextsOf(msgs[i].parts)[k])]) + 4])
          + 3
  ELSE roughTokenEstimate(msgs, sys)

\* the catch branch rounding down: Math.floor in place of Math.ceil
countOutputTokensFloor(text, modelId, encOk) ==
  IF encOk THEN encodeLength(getEncodingModelName(modelId), text)
  ELSE Len(text) \div 4

countOutputTokens(text, modelId, encOk) ==
  IF encOk THEN encodeLength(getEncodingModelName(modelId), text)
  ELSE CeilDiv4(Len(text))

\* countTextTokens: the same estimate, the model id defaulting to "gpt-4"
DefaultModelId == <<"gpt-4">>
countTextTokens(text, modelId, encOk) ==
  LET id == IF IsSome(modelId) THEN modelId[1] ELSE DefaultModelId
  IN IF encOk THEN encodeLength(getEncodingModelName(id), text)
     ELSE CeilDiv4(Len(text))

RECURSIVE Concat(_)
Concat(ss) == IF ss = <<>> THEN <<>> ELSE Head(ss) \o Concat(Tail(ss))

\* outputText of onFinish: the text parts of the assistant messages, concatenated
OutputText(finished) ==
  LET asst == SelectSeq(finished, LAMBDA m : m.role = "assistant")
  IN Concat([i \in DOMAIN asst |-> Concat(TextsOf(asst[i].parts))])

\* ---------------------------------------------------------------- state
VARIABLES
  chats,        \* Chat table: chat id -> owner, or NoUser
  messages,     \* Message table: rows [id, chatId, role, parts] in insertion order
  streams,      \* Stream table: <<stream id, chat id>>
  nreq,         \* requests received so far
  pc,           \* position of the request in flight
  req,          \* the request: session user, chat id, message, messages, model
  response,     \* the response returned, or "none"
  uiMessages,   \* the effective input message list
  writes,       \* kinds of write this request has performed
  modelInvoked, \* streamText has been called
  estimatedInputTokens, \* option of the pre-computed input estimate
  tokenUsageData,       \* option of the provider-reported usage
  usageState,   \* "none" | "pending" | "resolved" | "rejected"
  usageData,    \* the value the usage promise resolved with
  finishedMessages, \* the finished set handed to onFinish
  fi,           \* next finished message of the tool-approval loop
  updated,      \* ids onFinish called updateMessage on
  inserted,     \* ids onFinish called saveMessages on
  finErr,       \* onFinish threw
  usageCalls,   \* saveTokenUsage invocations of this request
  usageLog,     \* usage records this request committed
  env,          \* the run's environment: "faulty" | "live"
  titles,       \* Chat table: chat id -> "none" | "New chat" | "generated"
  titleTask,    \* titlePromise: "none" | "pending" | "resolved"
  emitted,      \* kinds of event written to the outward stream, in order
  backend,      \* outcome of the resumable-stream attempt of this POST call
  connected,    \* the caller is still reading the response
  modelFailed,  \* the model call failed during emission
  onFinishRuns, \* times onFinish was called for this request
  fetched,      \* getMessagesByChatId was called for this request
  messageCount, \* the count getMessageCountByUserId returned, while POST holds it
  tcIn,         \* token counter: the arguments of the call
  tcOut,        \* token counter: the values returned for them
  prompts,      \* SavedPrompt table: prompt id -> [owner, useCount], or NoPrompt
  isDevelopmentEnvironment, \* lib/constants: the deployment runs in development mode
  apiReq,       \* the request to one of the other endpoints
  apiResp,      \* its response: status and data
  apiCalls,     \* persistence and external calls made for it, in order
  globalStreamContext, \* the module's stream context: "null" until one is created
  redisUrl      \* the deployment has REDIS_URL set

store == <<chats, messages, streams>>
hist == <<writes, updated, inserted, finErr, usageCalls, usageLog>>
usage == <<estimatedInputTokens, tokenUsageData, usageState, usageData>>
vars == <<chats, messages, streams, nreq, pc, req, response, uiMessages, writes,
          modelInvoked, estimatedInputTokens, tokenUsageData, usageState,
          usageData, finishedMessages, fi, updated, inserted, finErr,
          usageCalls, usageLog, env, titles, titleTask, emitted, backend,
          connected, modelFailed, onFinishRuns, fetched, messageCount,
          tcIn, tcOut, prompts, isDevelopmentEnvironment, apiReq, apiResp, apiCalls,
          globalStreamContext, redisUrl>>
context == <<globalStreamContext, redisUrl>>
other == <<tcIn, tcOut, prompts, isDevelopmentEnvironment, apiReq, apiResp, apiCalls,
           context>>
world == <<env, titles>>
live == <<titleTask, emitted, backend, connected, modelFailed, onFinishRuns, fetched>>

\* the environments of a run: in a faulty one persistence and the encoder may
\* fail and the provider may report any usage or none, while the caller stays,
\* the model completes and the title task hangs; in a live one persistence and
\* the encoder are reliable and the provider reports its usage in full unless the
\* model failed, while the caller may leave, the model may fail mid-stream and
\* the title may arrive at any time
Envs == {"faulty", "live"}
DbOutcomes == IF env = "faulty" THEN BOOLEAN ELSE {TRUE}
EncOutcomes == IF env = "faulty" THEN BOOLEAN ELSE {TRUE}
ProviderSignals ==
  IF env = "faulty" THEN UsageSignals
  ELSE {Some([inputTokens |-> 5, outputTokens |-> 7, totalTokens |-> 150])}

NoReq == [user |-> NoUser, id |-> "c1", message |-> None, messages |-> None,
          selectedChatModel |-> <<>>]

\* no request has been received
RequestIdle ==
  /\ nreq = 0
  /\ pc = "idle"
  /\ req = NoReq
  /\ response = "none"
  /\ uiMessages = <<>>
  /\ writes = {}
  /\ modelInvoked = FALSE
  /\ estimatedInputTokens = None
  /\ tokenUsageData = None
  /\ usageState = "none"
  /\ usageData = None
  /\ finishedMessages = <<>>
  /\ fi = 1
  /\ updated = {}
  /\ inserted = {}
  /\ finErr = FALSE
  /\ usageCalls = 0
  /\ usageLog = <<>>
  /\ titleTask = "none"
  /\ emitted = <<>>
  /\ backend = "none"
  /\ connected = TRUE
  /\ modelFailed = FALSE
  /\ onFinishRuns = 0
  /\ fetched = FALSE
  /\ messageCount = Absent

ChatInit ==
  /\ RequestIdle
  /\ chats = [c \in ChatIds |-> NoUser]
  /\ messages = <<>>
  /\ streams = {}
  /\ env \in Envs
  /\ titles = [c \in ChatIds |-> "none"]

\* nothing is asked of the token counter or of the other endpoints
NoCall == [op |-> "none"]
NoPrompt == [owner |-> NoUser, title |-> "none", useCount |-> 0]
PromptIds == {"p1", "p2"}
OtherIdle ==
  /\ tcIn = NoCall
  /\ tcOut = NoCall
  /\ prompts = [p \in PromptIds |-> NoPrompt]
  /\ isDevelopmentEnvironment = FALSE
  /\ apiReq = NoCall
  /\ apiResp = NoCall
  /\ apiCalls = <<>>
  /\ globalStreamContext = "null"
  /\ redisUrl = TRUE

Init == ChatInit /\ OtherIdle

\* ---------------------------------------------------------------- helpers
Ids(s) == {s[i].id : i \in DOMAIN s}
MaxOf(S) == IF S = {} THEN 0 ELSE CHOOSE x \in S : \A y \in S : y <= x
\* generateUUID: an id no stored or supplied message has
FreshId == 1 + MaxOf(Ids(messages) \cup Ids(uiMessages))

isToolApprovalFlow == IsSome(req.messages)
HasUserMessage == IsSome(req.message) /\ req.message[1].role = "user"

\* getMessagesByChatId followed by convertToUIMessages
History(chatId) ==
  LET rows == SelectSeq(messages, LAMBDA r : r.chatId = chatId)
  IN [i \in DOMAIN rows |-> [id |-> rows[i].id, role |-> rows[i].role,
                             parts |-> rows[i].parts]]

\* persistence collaborator: insert rows (ids are a primary key, the chat id a
\* foreign key), update parts by id
CanInsert(rows) ==
  /\ chats[req.id] # NoUser
  /\ Ids(rows) \cap Ids(messages) = {}
  /\ Cardinality(Ids(rows)) = Len(rows)
Row(m, chatId) == [id |-> m.id, chatId |-> chatId, role |-> m.role, parts |-> m.parts]
InsertRows(ms, chatId) == messages \o [i \in DOMAIN ms |-> Row(ms[i], chatId)]
UpdateRow(id, parts) ==
  [i \in DOMAIN messages |->
     IF messages[i].id = id THEN [messages[i] EXCEPT !.parts = parts] ELSE messages[i]]

\* what a client may send
ClientIds == Ids(messages) \cup {1 + MaxOf(Ids(messages))}
NewMessages ==
  {[id |-> i, role |-> r, parts |-> p] :
     i \in ClientIds, r \in {"user", "assistant"}, p \in ClientParts}
Fabricated ==
  [id |-> 1 + MaxOf(Ids(messages)), role |-> "assistant", parts |-> <<ToolPart("call")>>]
MessageSets(chatId) ==
  {History(chatId), History(chatId) \o <<Fabricated>>}

Requests ==
  {[user |-> u, id |-> c, message |-> m, messages |-> ms, selectedChatModel |-> mo] :
     u \in Users \cup {NoUser}, c \in ChatIds,
     m \in {None} \cup {Some(x) : x \in NewMessages},
     ms \in {None} \cup UNION {{Some(x) : x \in MessageSets(c2)} : c2 \in ChatIds},
     mo \in ModelIds}

Finish(resp) ==
  /\ response' = resp
  /\ pc' = "done"

\* ---------------------------------------------------------------- request
\* a request arrives; the closure's variables are fresh. The body carries
\* either one new message or a full message set
Receive ==
  /\ pc \in {"idle", "done"}
  /\ nreq < MaxRequests
  /\ \E r \in Requests :
       /\ IsSome(r.message) # IsSome(r.messages)
       /\ IsSome(r.messages) => r.messages \in {Some(x) : x \in MessageSets(r.id)}
       /\ req' = r
  /\ nreq' = nreq + 1
  /\ pc' = "parse"
  /\ response' = "none"
  /\ uiMessages' = <<>>
  /\ writes' = {}
  /\ modelInvoked' = FALSE
  /\ estimatedInputTokens' = None
  /\ tokenUsageData' = None
  /\ usageState' = "none"
  /\ usageData' = None
  /\ finishedMessages' = <<>>
  /\ fi' = 1
  /\ updated' = {}
  /\ inserted' = {}
  /\ finErr' = FALSE
  /\ usageCalls' = 0
  /\ usageLog' = <<>>
  /\ titleTask' = "none"
  /\ emitted' = <<>>
  /\ backend' = "none"
  /\ connected' = TRUE
  /\ modelFailed' = FALSE
  /\ onFinishRuns' = 0
  /\ fetched' = FALSE
  /\ UNCHANGED <<store, world>>
  /\ messageCount' = Absent
  /\ UNCHANGED other

\* request.json() and postRequestBodySchema.parse
ParseBody ==
  /\ pc = "parse"
  /\ \E valid \in BOOLEAN :
       IF valid THEN pc' = "auth" /\ UNCHANGED response
       ELSE Finish("bad_request:api")
  /\ UNCHANGED <<store, nreq, req, uiMessages, modelInvoked, usage,
                 finishedMessages, fi, hist, world, live>>
  /\ UNCHANGED <<other, messageCount>>

\* auth() and the session check
Authenticate ==
  /\ pc = "auth"
  /\ IF req.user = NoUser THEN Finish("unauthorized:chat")
     ELSE pc' = "rate" /\ UNCHANGED response
  /\ UNCHANGED <<store, nreq, req, uiMessages, modelInvoked, usage,
                 finishedMessages, fi, hist, world, live>>
  /\ UNCHANGED <<other, messageCount>>

\* entitlementsByUserType[userType].maxMessagesPerDay
maxMessagesPerDay == 1

\* session.user.type and the entitlements of each type
userType(user) == IF user = "u1" THEN "guest" ELSE "regular"
entitlementsByUserType(type) ==
  IF type = "guest" THEN maxMessagesPerDay ELSE maxMessagesPerDay + 1
MessageCounts == 0 .. (entitlementsByUserType("regular") + 1)

\* the rate-limit response built but not returned: the handler carries on
RateLimitFallsThrough ==
  /\ pc = "rate"
  /\ \E n \in MessageCounts :
       /\ messageCount' = n
       /\ IF n > entitlementsByUserType(userType(req.user))
          THEN response' = "rate_limit:chat" /\ pc' = "owner"
          ELSE pc' = "owner" /\ UNCHANGED response
  /\ UNCHANGED <<store, nreq, req, uiMessages, modelInvoked, usage,
                 finishedMessages, fi, hist, world, live>>
  /\ UNCHANGED other

\* the request that reaches the ceiling rejected as well
RateLimitAtCeiling ==
  /\ pc = "rate"
  /\ \E n \in MessageCounts :
       /\ messageCount' = n
       /\ IF n >= entitlementsByUserType(userType(req.user))
          THEN Finish("rate_limit:chat")
          ELSE pc' = "owner" /\ UNCHANGED response
  /\ UNCHANGED <<store, nreq, req, uiMessages, modelInvoked, usage,
                 finishedMessages, fi, hist, world, live>>
  /\ UNCHANGED other

\* getMessageCountByUserId over the last 24 hours and the ceiling of the
\* caller's user type
RateLimit ==
  /\ pc = "rate"
  /\ \E n \in MessageCounts :
       /\ messageCount' = n
       /\ IF n > entitlementsByUserType(userType(req.user))
          THEN Finish("rate_limit:chat")
          ELSE pc' = "owner" /\ UNCHANGED response
  /\ UNCHANGED <<store, nreq, req, uiMessages, modelInvoked, usage,
                 finishedMessages, fi, hist, world, live>>
  /\ UNCHANGED other

\* the stored history put in front of the input in both flows
EffectiveMessagesWithHistory(fromDb) ==
  History(req.id) \o (IF isToolApprovalFlow THEN req.messages[1] ELSE req.message)

\* the effective input: the supplied set, or the history followed by the message
EffectiveMessages(fromDb) ==
  IF isToolApprovalFlow THEN req.messages[1] ELSE fromDb \o req.message

\* the ownership test left out
OwnerMismatchNever(owner, user) == FALSE

\* the ownership test on an existing chat
OwnerMismatch(owner, user) == owner # user

\* a title task started for every user message, whether the chat is new or not
startsTitleTaskAlways(created) == HasUserMessage

\* titlePromise is assigned only where the chat has just been created
startsTitleTask(created) == created

\* getChatById, the ownership check, saveChat for a new chat with the placeholder
\* title and the start of the title task, and uiMessages
CheckOwnership ==
  /\ pc = "owner"
  /\ LET owner == chats[req.id] IN
     IF owner # NoUser
     THEN IF OwnerMismatch(owner, req.user)
          THEN /\ Finish("forbidden:chat")
               /\ UNCHANGED <<chats, titles, titleTask, fetched, uiMessages, writes>>
          ELSE /\ uiMessages' = EffectiveMessages(
                                  IF isToolApprovalFlow THEN <<>> ELSE History(req.id))
               /\ fetched' = ~isToolApprovalFlow
               /\ titleTask' = IF startsTitleTask(FALSE) THEN "pending" ELSE "none"
               /\ pc' = "saveUser"
               /\ UNCHANGED <<chats, titles, response, writes>>
     ELSE IF HasUserMessage
          THEN \E ok \in DbOutcomes :
                 IF ok
                 THEN /\ chats' = [chats EXCEPT ![req.id] = req.user]
                      /\ titles' = [titles EXCEPT ![req.id] = "New chat"]
                      /\ titleTask' = IF startsTitleTask(TRUE) THEN "pending" ELSE "none"
                      /\ writes' = writes \cup {"chat"}
                      /\ uiMessages' = EffectiveMessages(<<>>)
                      /\ pc' = "saveUser"
                      /\ UNCHANGED <<response, fetched>>
                 ELSE /\ Finish("bad_request:database")
                      /\ UNCHANGED <<chats, titles, titleTask, fetched, uiMessages, writes>>
          ELSE /\ uiMessages' = EffectiveMessages(<<>>)
               /\ pc' = "saveUser"
               /\ UNCHANGED <<chats, titles, titleTask, fetched, response, writes>>
  /\ UNCHANGED <<messages, streams, nreq, req, modelInvoked, usage,
                 finishedMessages, fi, updated, inserted, finErr, usageCalls, usageLog,
                 env, emitted, backend, connected, modelFailed, onFinishRuns>>
  /\ messageCount' = Absent
  /\ UNCHANGED other

\* the triggering user message not saved before the stream id is created
SaveUserMessageSkipped ==
  /\ pc = "saveUser"
  /\ pc' = "streamId"
  /\ UNCHANGED <<store, nreq, req, response, uiMessages, modelInvoked, usage,
                 finishedMessages, fi, hist, world, live>>
  /\ UNCHANGED <<other, messageCount>>

\* saveMessages of the triggering user message
SaveUserMessage ==
  /\ pc = "saveUser"
  /\ IF HasUserMessage
     THEN \E ok \in DbOutcomes :
            IF ok /\ CanInsert(req.message)
            THEN /\ messages' = InsertRows(req.message, req.id)
                 /\ writes' = writes \cup {"message"}
                 /\ pc' = "streamId"
                 /\ UNCHANGED response
            ELSE /\ Finish("bad_request:database")
                 /\ UNCHANGED <<messages, writes>>
     ELSE /\ pc' = "streamId"
          /\ UNCHANGED <<messages, writes, response>>
  /\ UNCHANGED <<chats, streams, nreq, req, uiMessages, modelInvoked, usage,
                 finishedMessages, fi, updated, inserted, finErr, usageCalls, usageLog,
                 world, live>>
  /\ UNCHANGED <<other, messageCount>>

\* createStreamId not awaited: the handler goes on whether or not the write landed
CreateStreamIdNotAwaited ==
  /\ pc = "streamId"
  /\ \E ok \in DbOutcomes :
       IF ok
       THEN /\ streams' = streams \cup {<<nreq, req.id>>}
            /\ writes' = writes \cup {"stream"}
       ELSE UNCHANGED <<streams, writes>>
  /\ pc' = "respond"
  /\ UNCHANGED <<chats, messages, nreq, req, response, uiMessages, modelInvoked, usage,
                 finishedMessages, fi, updated, inserted, finErr, usageCalls, usageLog,
                 world, live>>
  /\ UNCHANGED <<other, messageCount>>

\* generateUUID and createStreamId
CreateStreamId ==
  /\ pc = "streamId"
  /\ \E ok \in DbOutcomes :
       IF ok
       THEN /\ streams' = streams \cup {<<nreq, req.id>>}
            /\ writes' = writes \cup {"stream"}
            /\ pc' = "respond"
            /\ UNCHANGED response
       ELSE /\ Finish("bad_request:database")
            /\ UNCHANGED <<streams, writes>>
  /\ UNCHANGED <<chats, messages, nreq, req, uiMessages, modelInvoked, usage,
                 finishedMessages, fi, updated, inserted, finErr, usageCalls, usageLog,
                 world, live>>
  /\ UNCHANGED <<other, messageCount>>

\* what getStreamContext and resumableStream can do: hand back a resumable
\* stream, have no context, return no stream, or throw
BackendOutcomes == {"resumed", "no-context", "no-stream", "threw"}

\* an exception of resumableStream escaping to the outer catch
ResponseForEscaping(outcome) ==
  IF outcome = "threw" THEN "offline:chat" ELSE "stream"

\* the Response returned: the resumable stream, or the stream itself
ResponseFor(outcome) == "stream"

\* createResumableStreamContext: it hands back a context, and with no REDIS_URL
\* it throws the error that names the variable (a throw for any other reason,
\* which getStreamContext logs and treats alike, is left out)
CreateOutcomes == IF redisUrl THEN {"ctx"} ELSE {"REDIS_URL"}

\* getStreamContext: the module's context when there is one, otherwise what one
\* creation attempt leaves in globalStreamContext, null when it threw
getStreamContext(created) ==
  IF globalStreamContext # "null" THEN globalStreamContext
  ELSE IF created = "ctx" THEN "ctx" ELSE "null"

\* createUIMessageStream, getStreamContext, the resumable-stream attempt and the
\* Response carrying the stream
Respond ==
  /\ pc = "respond"
  /\ \E created \in CreateOutcomes, outcome \in BackendOutcomes :
       /\ globalStreamContext' = getStreamContext(created)
       /\ (outcome = "no-context") <=> (globalStreamContext' = "null")
       /\ backend' = outcome
       /\ response' = ResponseFor(outcome)
  /\ pc' = "execute"
  /\ UNCHANGED <<store, nreq, req, uiMessages, modelInvoked, usage,
                 finishedMessages, fi, hist, world, titleTask, emitted, connected,
                 modelFailed, onFinishRuns, fetched>>
  /\ UNCHANGED <<tcIn, tcOut, prompts, isDevelopmentEnvironment, apiReq, apiResp,
                 apiCalls, redisUrl, messageCount>>

\* ---------------------------------------------------------------- stream
\* convertToModelMessages: the role and the parts of each UI message
convertToModelMessages(ui) ==
  [i \in DOMAIN ui |-> [role |-> ui[i].role, parts |-> ui[i].parts]]

\* onError: the one event a failure of the pipeline is turned into
onError == "error"

\* execute: the input pre-count, streamText and the registration of the usage
\* callback; or an exception before the pre-count (convertToModelMessages throws)
Execute ==
  /\ pc = "execute"
  /\ \/ \E encOk \in EncOutcomes :
          /\ estimatedInputTokens' =
               Some(countTokens(convertToModelMessages(uiMessages),
                                systemPrompt(req.selectedChatModel),
                                req.selectedChatModel, encOk))
          /\ modelInvoked' = TRUE
          /\ usageState' = "pending"
          /\ UNCHANGED emitted
     \/ /\ emitted' = Append(emitted, onError)
        /\ UNCHANGED <<estimatedInputTokens, modelInvoked, usageState>>
  /\ backend' = "none"
  /\ pc' = "streaming"
  /\ UNCHANGED <<store, nreq, req, response, uiMessages, tokenUsageData, usageData,
                 finishedMessages, fi, hist, world, titleTask, connected, modelFailed,
                 onFinishRuns, fetched>>
  /\ UNCHANGED <<other, messageCount>>

\* the callback taking the total as input + output whatever totalTokens says
AdoptUsageSum(cell, u) ==
  IF IsSome(u)
  THEN LET inputTokens == IF u[1].inputTokens = Absent THEN 0 ELSE u[1].inputTokens
           outputTokens == IF u[1].outputTokens = Absent THEN 0 ELSE u[1].outputTokens
           total == inputTokens + outputTokens
       IN IF total > 0
          THEN Some([promptTokens |-> inputTokens, completionTokens |-> outputTokens,
                     totalTokens |-> total])
          ELSE cell
  ELSE cell

\* the callback adopting every non-null usage object, zero totals included
AdoptUsageAlways(cell, u) ==
  IF IsSome(u)
  THEN LET inputTokens == IF u[1].inputTokens = Absent THEN 0 ELSE u[1].inputTokens
           outputTokens == IF u[1].outputTokens = Absent THEN 0 ELSE u[1].outputTokens
           total == IF u[1].totalTokens = Absent THEN inputTokens + outputTokens
                    ELSE u[1].totalTokens
       IN Some([promptTokens |-> inputTokens, completionTokens |-> outputTokens,
                totalTokens |-> total])
  ELSE cell

\* the usage callback's assignment to tokenUsageData
AdoptUsage(cell, u) ==
  IF IsSome(u)
  THEN LET inputTokens == IF u[1].inputTokens = Absent THEN 0 ELSE u[1].inputTokens
           outputTokens == IF u[1].outputTokens = Absent THEN 0 ELSE u[1].outputTokens
           total == IF u[1].totalTokens = Absent THEN inputTokens + outputTokens
                    ELSE u[1].totalTokens
       IN IF total > 0
          THEN Some([promptTokens |-> inputTokens, completionTokens |-> outputTokens,
                     totalTokens |-> total])
          ELSE cell
  ELSE cell

\* the callback writing the provider record itself as soon as it adopts it
UsageResolveSaves ==
  /\ usageState = "pending"
  /\ pc \in {"streaming", "onFinish", "commit", "done"}
  /\ \E u \in ProviderSignals :
       /\ usageData' = u
       /\ tokenUsageData' = AdoptUsage(tokenUsageData, u)
       /\ IF IsSome(AdoptUsage(None, u))
          THEN /\ usageCalls' = usageCalls + 1
               /\ usageLog' = Append(usageLog,
                                [src |-> "provider", rec |-> AdoptUsage(None, u)[1],
                                 at |-> "resolved"])
          ELSE UNCHANGED <<usageCalls, usageLog>>
  /\ usageState' = "resolved"
  /\ UNCHANGED <<store, nreq, pc, req, response, uiMessages, modelInvoked,
                 estimatedInputTokens, finishedMessages, fi, writes, updated,
                 inserted, finErr, world, live>>
  /\ UNCHANGED <<other, messageCount>>

\* result.usage.then: the promise resolves, at any time after streamText
UsageResolve ==
  /\ usageState = "pending"
  /\ pc \in {"streaming", "onFinish", "commit", "done"}
  /\ \E u \in ProviderSignals :
       /\ usageData' = u
       /\ tokenUsageData' = AdoptUsage(tokenUsageData, u)
  /\ usageState' = "resolved"
  /\ UNCHANGED <<store, nreq, pc, req, response, uiMessages, modelInvoked,
                 estimatedInputTokens, finishedMessages, fi, hist, world, live>>
  /\ UNCHANGED <<other, messageCount>>

\* result.usage.catch: the promise rejects and the error is logged
UsageReject ==
  /\ usageState = "pending"
  /\ env = "faulty" \/ modelFailed
  /\ pc \in {"streaming", "onFinish", "commit", "done"}
  /\ usageState' = "rejected"
  /\ UNCHANGED <<store, nreq, pc, req, response, uiMessages, modelInvoked,
                 estimatedInputTokens, tokenUsageData, usageData,
                 finishedMessages, fi, hist, world, live>>
  /\ UNCHANGED <<other, messageCount>>

\* the finished set the stream hands to onFinish: without originalMessages the
\* response message alone (or nothing); with them, the originals with the last
\* assistant message continued, or followed by a new response message
FinishedSets ==
  IF isToolApprovalFlow
  THEN {uiMessages \o <<[id |-> FreshId, role |-> "assistant", parts |-> p]>> :
          p \in AsstParts}
       \cup (IF Len(uiMessages) > 0 /\ uiMessages[Len(uiMessages)].role = "assistant"
             THEN {[uiMessages EXCEPT ![Len(uiMessages)].parts = p] : p \in AsstParts}
             ELSE {})
  ELSE {<<>>} \cup {<<[id |-> FreshId, role |-> "assistant", parts |-> p]>> :
                      p \in AsstParts}

\* onFinish starting at the usage commit, before the message writes
OnFinishStartCommit == "commit"

\* the first step of onFinish: the message writes
OnFinishStart == "onFinish"

\* the pipeline drained only while the caller reads it: onFinish waits for a reader
StreamFinishWhileConnected ==
  /\ pc = "streaming"
  /\ connected
  /\ \E f \in FinishedSets : finishedMessages' = f
  /\ pc' = OnFinishStart
  /\ onFinishRuns' = onFinishRuns + 1
  /\ UNCHANGED <<store, nreq, req, response, uiMessages, modelInvoked, usage, fi, hist,
                 world, titleTask, emitted, backend, connected, modelFailed, fetched>>
  /\ UNCHANGED <<other, messageCount>>

\* the merged stream ends, drained by consumeStream whether or not the caller
\* still reads, and onFinish is called
StreamFinish ==
  /\ pc = "streaming"
  /\ \E f \in FinishedSets : finishedMessages' = f
  /\ pc' = OnFinishStart
  /\ onFinishRuns' = onFinishRuns + 1
  /\ UNCHANGED <<store, nreq, req, response, uiMessages, modelInvoked, usage, fi, hist,
                 world, titleTask, emitted, backend, connected, modelFailed, fetched>>
  /\ UNCHANGED <<other, messageCount>>

\* ---------------------------------------------------------------- onFinish
\* the lookup done against the stored rows instead of the input messages
existingMsgInStore(finishedMsg) == finishedMsg.id \in Ids(messages)

\* whether the finished message is one of this turn's input messages
existingMsg(finishedMsg) == finishedMsg.id \in Ids(uiMessages)

\* onFinish returning after its message writes, without the usage commit
AfterMessagesReturn == "done"

\* where onFinish goes after its message writes
AfterMessages == "commit"

\* tool-approval flow: one iteration of the loop over the finished messages
FinishReconcile ==
  /\ pc = "onFinish"
  /\ isToolApprovalFlow
  /\ IF fi > Len(finishedMessages)
     THEN /\ pc' = AfterMessages
          /\ UNCHANGED <<messages, fi, writes, updated, inserted, finErr>>
     ELSE LET m == finishedMessages[fi] IN
          \E ok \in DbOutcomes :
            IF existingMsg(m)
            THEN IF ok
                 THEN /\ messages' = UpdateRow(m.id, m.parts)
                      /\ updated' = updated \cup {m.id}
                      /\ writes' = writes \cup {"finished"}
                      /\ fi' = fi + 1
                      /\ UNCHANGED <<pc, inserted, finErr>>
                 ELSE /\ finErr' = TRUE
                      /\ pc' = "done"
                      /\ UNCHANGED <<messages, fi, writes, updated, inserted>>
            ELSE IF ok /\ CanInsert(<<m>>)
                 THEN /\ messages' = InsertRows(<<m>>, req.id)
                      /\ inserted' = inserted \cup {m.id}
                      /\ writes' = writes \cup {"finished"}
                      /\ fi' = fi + 1
                      /\ UNCHANGED <<pc, updated, finErr>>
                 ELSE /\ finErr' = TRUE
                      /\ pc' = "done"
                      /\ UNCHANGED <<messages, fi, writes, updated, inserted>>
  /\ UNCHANGED <<chats, streams, nreq, req, response, uiMessages, modelInvoked, usage,
                 finishedMessages, usageCalls, usageLog, world, live>>
  /\ UNCHANGED <<other, messageCount>>

\* normal flow: all finished messages in one saveMessages call
FinishSaveAll ==
  /\ pc = "onFinish"
  /\ ~isToolApprovalFlow
  /\ IF Len(finishedMessages) > 0
     THEN \E ok \in DbOutcomes :
            IF ok /\ CanInsert(finishedMessages)
            THEN /\ messages' = InsertRows(finishedMessages, req.id)
                 /\ inserted' = inserted \cup Ids(finishedMessages)
                 /\ writes' = writes \cup {"finished"}
                 /\ pc' = AfterMessages
                 /\ UNCHANGED finErr
            ELSE /\ finErr' = TRUE
                 /\ pc' = "done"
                 /\ UNCHANGED <<messages, inserted, writes>>
     ELSE /\ pc' = AfterMessages
          /\ UNCHANGED <<messages, inserted, writes, finErr>>
  /\ UNCHANGED <<chats, streams, nreq, req, response, uiMessages, modelInvoked, usage,
                 finishedMessages, fi, updated, usageCalls, usageLog, world, live>>
  /\ UNCHANGED <<other, messageCount>>

\* the output estimated text part by text part instead of on the concatenation
manualTokenUsagePerPart(est, finished, modelId, encOk) ==
  LET promptTokens == IF IsSome(est) THEN est[1] ELSE 0
      asst == SelectSeq(finished, LAMBDA m : m.role = "assistant")
      estimatedOutputTokens ==
        SumSeq([i \in DOMAIN asst |->
                 SumSeq([k \in DOMAIN TextsOf(asst[i].parts) |->
                          countOutputTokens(TextsOf(asst[i].parts)[k], modelId, encOk)])])
  IN [promptTokens |-> promptTokens,
      completionTokens |-> estimatedOutputTokens,
      totalTokens |-> promptTokens + estimatedOutputTokens]

\* the fallback record: the held input estimate and the estimated output
manualTokenUsage(est, finished, modelId, encOk) ==
  LET promptTokens == IF IsSome(est) THEN est[1] ELSE 0
      estimatedOutputTokens == countOutputTokens(OutputText(finished), modelId, encOk)
  IN [promptTokens |-> promptTokens,
      completionTokens |-> estimatedOutputTokens,
      totalTokens |-> promptTokens + estimatedOutputTokens]

\* the record onFinish hands to saveTokenUsage
SelectUsage(cell, est, finished, modelId, encOk) ==
  IF IsSome(cell)
  THEN [src |-> "provider", rec |-> cell[1]]
  ELSE [src |-> "fallback", rec |-> manualTokenUsage(est, finished, modelId, encOk)]

\* the log entry of a committed record: the record, its path, and the state of the
\* usage promise when onFinish read the cell
LogEntry(sel, promise) == [src |-> sel.src, rec |-> sel.rec, at |-> promise]

\* saveTokenUsage called again after it failed
UsageAttemptsRetried(ok) == IF ok THEN 1 ELSE 2

\* saveTokenUsage is called once, whether it succeeds or throws
UsageAttempts(ok) == 1

\* the usage commit: read the cell, call saveTokenUsage (the record's chat id is
\* a foreign key), catch its failure
CommitUsage ==
  /\ pc = "commit"
  /\ \E db \in DbOutcomes, encOk \in EncOutcomes :
       LET ok == db /\ chats[req.id] # NoUser IN
       /\ usageCalls' = usageCalls + UsageAttempts(ok)
       /\ IF ok
          THEN /\ usageLog' = Append(usageLog,
                                LogEntry(SelectUsage(tokenUsageData, estimatedInputTokens,
                                                     finishedMessages,
                                                     req.selectedChatModel, encOk),
                                         usageState))
               /\ writes' = writes \cup {"usage"}
          ELSE UNCHANGED <<usageLog, writes>>
  /\ pc' = "done"
  /\ UNCHANGED <<store, nreq, req, response, uiMessages, modelInvoked, usage,
                 finishedMessages, fi, updated, inserted, finErr, world, live>>
  /\ UNCHANGED <<other, messageCount>>

\* ---------------------------------------------------------------- stream events
\* the model stream yields its first content delta
EmitDelta ==
  /\ env = "live"
  /\ pc = "streaming"
  /\ modelInvoked /\ ~modelFailed
  /\ \A i \in DOMAIN emitted : emitted[i] # "delta"
  /\ emitted' = Append(emitted, "delta")
  /\ UNCHANGED <<store, nreq, pc, req, response, uiMessages, modelInvoked, usage,
                 finishedMessages, fi, hist, world, titleTask, backend, connected,
                 modelFailed, onFinishRuns, fetched>>
  /\ UNCHANGED <<other, messageCount>>

\* the failure of the model call escaping the pipeline: the stream is torn down
\* with no error event and onFinish is not called
ModelFailEscapes ==
  /\ env = "live"
  /\ pc = "streaming"
  /\ modelInvoked /\ ~modelFailed
  /\ modelFailed' = TRUE
  /\ pc' = "done"
  /\ UNCHANGED <<store, nreq, req, response, uiMessages, modelInvoked, usage,
                 finishedMessages, fi, hist, world, titleTask, emitted, backend,
                 connected, onFinishRuns, fetched>>
  /\ UNCHANGED <<other, messageCount>>

\* the model call fails during emission: the merged stream carries the failure,
\* which onError turns into one error event
ModelFail ==
  /\ env = "live"
  /\ pc = "streaming"
  /\ modelInvoked /\ ~modelFailed
  /\ modelFailed' = TRUE
  /\ emitted' = Append(emitted, onError)
  /\ UNCHANGED <<store, nreq, pc, req, response, uiMessages, modelInvoked, usage,
                 finishedMessages, fi, hist, world, titleTask, backend, connected,
                 onFinishRuns, fetched>>
  /\ UNCHANGED <<other, messageCount>>

\* the caller stops reading the response; no abort signal reaches streamText
Disconnect ==
  /\ env = "live"
  /\ connected
  /\ response = "stream"
  /\ pc \in {"execute", "streaming", "onFinish", "commit"}
  /\ connected' = FALSE
  /\ UNCHANGED <<store, nreq, pc, req, response, uiMessages, modelInvoked, usage,
                 finishedMessages, fi, hist, world, titleTask, emitted, backend,
                 modelFailed, onFinishRuns, fetched>>
  /\ UNCHANGED <<other, messageCount>>

\* titlePromise.then, registered in execute: updateChatTitleById is called and
\* the title event is written, which reaches the stream only while it is open
TitleResolve ==
  /\ env = "live"
  /\ titleTask = "pending"
  /\ pc \in {"streaming", "onFinish", "commit", "done"}
  /\ titleTask' = "resolved"
  /\ titles' = [titles EXCEPT ![req.id] = "generated"]
  /\ emitted' = IF pc = "streaming" THEN Append(emitted, "title") ELSE emitted
  /\ UNCHANGED <<store, nreq, pc, req, response, uiMessages, modelInvoked, usage,
                 finishedMessages, fi, hist, env, backend, connected, modelFailed,
                 onFinishRuns, fetched>>
  /\ UNCHANGED <<other, messageCount>>

\* ---------------------------------------------------------------- specification
Next ==
  \/ Receive
  \/ ParseBody
  \/ Authenticate
  \/ RateLimit
  \/ CheckOwnership
  \/ SaveUserMessage
  \/ CreateStreamId
  \/ Respond
  \/ Execute
  \/ UsageResolve
  \/ UsageReject
  \/ StreamFinish
  \/ FinishReconcile
  \/ FinishSaveAll
  \/ CommitUsage
  \/ EmitDelta
  \/ ModelFail
  \/ Disconnect
  \/ TitleResolve

Spec == Init /\ [][Next]_vars

\* a run in the live environment
LiveInit == Init /\ env = "live"

\* the pipeline of a request that returned a stream keeps running: execute is
\* started by the stream, consumeStream drains the model stream, and the steps of
\* onFinish follow one another
Fairness ==
  /\ WF_vars(Execute)
  /\ WF_vars(StreamFinish)
  /\ WF_vars(FinishReconcile)
  /\ WF_vars(FinishSaveAll)
  /\ WF_vars(CommitUsage)
FairSpec == LiveInit /\ [][Next]_vars /\ Fairness

\* ---------------------------------------------------------------- token counter calls
\* the variables of the chat route, left alone by every other operation
chatVars == <<chats, messages, streams, nreq, pc, req, response, uiMessages, writes,
              modelInvoked, estimatedInputTokens, tokenUsageData, usageState,
              usageData, finishedMessages, fi, updated, inserted, finErr,
              usageCalls, usageLog, env, titles, titleTask, emitted, backend,
              connected, modelFailed, onFinishRuns, fetched, messageCount>>

\* texts: every sequence of the two characters up to a length
Texts(n) == UNION {[1 .. k -> {"a", "b"}] : k \in 0 .. n}
\* model ids: every sequence of up to two of these fragments
TcFragments == {"gpt-4", "gpt-3.5", "x/"}
TcModelIds == UNION {[1 .. k -> TcFragments] : k \in 0 .. 2}
\* message contents: up to two parts, texts and non-text parts in any order; a
\* content given as one string is the content with that one text part
TcParts == {TextPart(<<"a", "b">>), TextPart(<<"b", "a", "b">>), ToolPart("result")}
TcPartLists == UNION {[1 .. k -> TcParts] : k \in 0 .. 2}
TcMessages == {[role |-> "user", parts |-> pl] : pl \in TcPartLists}
TcMessageLists(n) == UNION {[1 .. k -> TcMessages] : k \in 0 .. n}
TcSystemPrompts == {<<>>, <<"a", "b", "a", "b", "b">>}

TcCall(op, text, modelId, msgs, sys, encOk) ==
  [op |-> op, text |-> text, modelId |-> modelId, msgs |-> msgs, sys |-> sys,
   encOk |-> encOk]
\* the calls: a single text with a model id (optional for countTextTokens), a
\* conversation with a system prompt, a model id alone
SingleCalls ==
  {TcCall(op, t, Some(m), <<>>, <<>>, ok) :
     op \in {"countOutputTokens", "countTextTokens"}, t \in Texts(MaxTextLen),
     m \in TcModelIds, ok \in BOOLEAN}
  \cup {TcCall("countTextTokens", t, None, <<>>, <<>>, ok) :
          t \in Texts(MaxTextLen), ok \in BOOLEAN}
ConversationCalls ==
  {TcCall("countTokens", <<>>, Some(<<f>>), ms, sys, ok) :
     f \in {"gpt-4", "gpt-3.5"}, ms \in TcMessageLists(MaxMsgs), sys \in TcSystemPrompts,
     ok \in BOOLEAN}
FamilyCalls ==
  {TcCall("getEncodingModelName", <<>>, Some(m), <<>>, <<>>, TRUE) : m \in TcModelIds}

TokenInit ==
  /\ ChatInit /\ env = "faulty"
  /\ tcIn \in SingleCalls \cup ConversationCalls \cup FamilyCalls
  /\ tcOut = NoCall
  /\ prompts = [p \in PromptIds |-> NoPrompt]
  /\ isDevelopmentEnvironment = FALSE
  /\ apiReq = NoCall
  /\ apiResp = NoCall
  /\ apiCalls = <<>>
  /\ globalStreamContext = "null"
  /\ redisUrl = TRUE

Returned(val) ==
  /\ tcOut' = [op |-> tcIn.op, val |-> val]
  /\ UNCHANGED <<chatVars, context, tcIn, prompts, isDevelopmentEnvironment, apiReq, apiResp,
                 apiCalls>>

CallCountOutputTokens ==
  /\ tcIn.op = "countOutputTokens" /\ tcOut.op = "none"
  /\ Returned(countOutputTokens(tcIn.text, tcIn.modelId[1], tcIn.encOk))

CallCountTextTokens ==
  /\ tcIn.op = "countTextTokens" /\ tcOut.op = "none"
  /\ Returned(countTextTokens(tcIn.text, tcIn.modelId, tcIn.encOk))

CallCountTokens ==
  /\ tcIn.op = "countTokens" /\ tcOut.op = "none"
  /\ Returned(countTokens(tcIn.msgs, tcIn.sys, tcIn.modelId[1], tcIn.encOk))

CallGetEncodingModelName ==
  /\ tcIn.op = "getEncodingModelName" /\ tcOut.op = "none"
  /\ Returned(getEncodingModelName(tcIn.modelId[1]))

TokenNext ==
  \/ CallCountOutputTokens
  \/ CallCountTextTokens
  \/ CallCountTokens
  \/ CallGetEncodingModelName

TokenSpec == TokenInit /\ [][TokenNext]_vars

\* ---------------------------------------------------------------- the other endpoints
\* the variables of one chat POST call
chatRun == <<pc, req, response, uiMessages, writes, modelInvoked, usage,
             finishedMessages, fi, hist, env, live, messageCount>>

\* session.user.email: absent, empty, or the pieces of an address in order
AdminDomain == "@fddigital.com"
Emails == {None, Some(<<>>), Some(<<"a", AdminDomain>>), Some(<<"a", "@other.com">>),
           Some(<<"a", AdminDomain, ".example.org">>)}
endsWith(s, suffix) == Len(s) > 0 /\ s[Len(s)] = suffix

isAdminUser(email) ==
  IF ~IsSome(email) \/ email[1] = <<>> THEN FALSE
  ELSE IF isDevelopmentEnvironment THEN TRUE
  ELSE endsWith(email[1], AdminDomain)

ApiRequest(op, user, email, id, body, action) ==
  [op |-> op, user |-> user, email |-> email, id |-> id, body |-> body,
   action |-> action]
Resp(status, data) == [op |-> "response", status |-> status, data |-> data]
Bodies == {"valid", "invalid", "malformed"}

\* a handler is called: no chat POST call is running
Accept == nreq < MaxRequests /\ pc \in {"idle", "done"}
\* the handler returned resp after making these calls, in order
Handle(r, resp, calls) ==
  /\ apiReq' = r
  /\ apiResp' = resp
  /\ apiCalls' = calls
  /\ nreq' = nreq + 1

ApiInit ==
  /\ RequestIdle
  /\ env = "faulty"
  /\ chats = [c \in ChatIds |-> "u1"]
  /\ titles = [c \in ChatIds |-> "New chat"]
  /\ messages = <<>>
  /\ streams = {}
  /\ tcIn = NoCall
  /\ tcOut = NoCall
  /\ prompts = [p \in PromptIds |->
                  IF p = "p1" THEN [owner |-> "u1", title |-> "t0", useCount |-> 0]
                  ELSE NoPrompt]
  /\ isDevelopmentEnvironment \in BOOLEAN
  /\ apiReq = NoCall
  /\ apiResp = NoCall
  /\ apiCalls = <<>>
  /\ globalStreamContext = "null"
  /\ redisUrl \in BOOLEAN

\* chat POST called without a session user
ChatReject == Receive /\ req'.user = NoUser

\* GET /api/admin/analytics
AnalyticsGET ==
  /\ Accept
  /\ \E u \in Users \cup {NoUser}, e \in Emails, db \in BOOLEAN :
       LET r == ApiRequest("analytics.GET", u, e, None, "valid", "none")
       IN /\ u = NoUser => e = None
          /\ IF u = NoUser THEN Handle(r, Resp("unauthorized:chat", None), <<>>)
             ELSE IF ~isAdminUser(e) THEN Handle(r, Resp("forbidden:chat", None), <<>>)
             ELSE IF db
                  THEN Handle(r, Resp("200", Some("usage")), <<"getTokenUsageByDateRange">>)
                  ELSE Handle(r, Resp("bad_request:database", None),
                              <<"getTokenUsageByDateRange">>)
  /\ UNCHANGED <<store, titles, chatRun, context, tcIn, tcOut, prompts, isDevelopmentEnvironment>>

\* the chat deleted without the ownership test
ChatDELETENoOwnerCheck ==
  /\ Accept
  /\ \E u \in Users \cup {NoUser}, id \in {None} \cup {Some(c) : c \in ChatIds},
        found \in BOOLEAN, db \in BOOLEAN :
       LET r == ApiRequest("chat.DELETE", u, None, id, "valid", "none")
       IN IF ~IsSome(id)
          THEN /\ Handle(r, Resp("bad_request:api", None), <<>>)
               /\ UNCHANGED <<store, titles>>
          ELSE IF u = NoUser
          THEN /\ Handle(r, Resp("unauthorized:chat", None), <<>>)
               /\ UNCHANGED <<store, titles>>
          ELSE IF ~found
          THEN /\ Handle(r, Resp("unhandled", None), <<"getChatById">>)
               /\ UNCHANGED <<store, titles>>
          ELSE IF FALSE
          THEN /\ Handle(r, Resp("forbidden:chat", None), <<"getChatById">>)
               /\ UNCHANGED <<store, titles>>
          ELSE IF ~db
          THEN /\ Handle(r, Resp("unhandled", None), <<"getChatById", "deleteChatById">>)
               /\ UNCHANGED <<store, titles>>
          ELSE /\ Handle(r, Resp("200", Some(id[1])), <<"getChatById", "deleteChatById">>)
               /\ chats' = [chats EXCEPT ![id[1]] = NoUser]
               /\ titles' = [titles EXCEPT ![id[1]] = "none"]
               /\ messages' = SelectSeq(messages, LAMBDA row : row.chatId # id[1])
               /\ streams' = {s \in streams : s[2] # id[1]}
  /\ UNCHANGED <<chatRun, context, tcIn, tcOut, prompts, isDevelopmentEnvironment>>

\* DELETE /api/chat?id=: no try/catch, a failing query escapes the handler
ChatDELETE ==
  /\ Accept
  /\ \E u \in Users \cup {NoUser}, id \in {None} \cup {Some(c) : c \in ChatIds},
        found \in BOOLEAN, db \in BOOLEAN :
       LET r == ApiRequest("chat.DELETE", u, None, id, "valid", "none")
       IN IF ~IsSome(id)
          THEN /\ Handle(r, Resp("bad_request:api", None), <<>>)
               /\ UNCHANGED <<store, titles>>
          ELSE IF u = NoUser
          THEN /\ Handle(r, Resp("unauthorized:chat", None), <<>>)
               /\ UNCHANGED <<store, titles>>
          ELSE IF ~found
          THEN /\ Handle(r, Resp("unhandled", None), <<"getChatById">>)
               /\ UNCHANGED <<store, titles>>
          ELSE IF chats[id[1]] # u
          THEN /\ Handle(r, Resp("forbidden:chat", None), <<"getChatById">>)
               /\ UNCHANGED <<store, titles>>
          ELSE IF ~db
          THEN /\ Handle(r, Resp("unhandled", None), <<"getChatById", "deleteChatById">>)
               /\ UNCHANGED <<store, titles>>
          ELSE /\ Handle(r, Resp("200", Some(id[1])), <<"getChatById", "deleteChatById">>)
               /\ chats' = [chats EXCEPT ![id[1]] = NoUser]
               /\ titles' = [titles EXCEPT ![id[1]] = "none"]
               /\ messages' = SelectSeq(messages, LAMBDA row : row.chatId # id[1])
               /\ streams' = {s \in streams : s[2] # id[1]}
  /\ UNCHANGED <<chatRun, context, tcIn, tcOut, prompts, isDevelopmentEnvironment>>

\* getSavedPromptsByUserId: the rows whose userId is the one given
PromptsOf(userId) == {p \in PromptIds : prompts[p].owner = userId}

\* GET /api/prompts
PromptsGET ==
  /\ Accept
  /\ \E u \in Users \cup {NoUser}, db \in BOOLEAN :
       LET r == ApiRequest("prompts.GET", u, None, None, "valid", "none")
       IN IF u = NoUser THEN Handle(r, Resp("unauthorized:chat", None), <<>>)
          ELSE IF db
               THEN Handle(r, Resp("200", Some(PromptsOf(u))), <<"getSavedPromptsByUserId">>)
               ELSE Handle(r, Resp("bad_request:database", None),
                           <<"getSavedPromptsByUserId">>)
  /\ UNCHANGED <<store, titles, chatRun, context, tcIn, tcOut, prompts, isDevelopmentEnvironment>>

\* POST /api/prompts: the store gives the new row an id of its own
PromptsPOST ==
  /\ Accept
  /\ \E u \in Users \cup {NoUser}, body \in Bodies, db \in BOOLEAN :
       LET r == ApiRequest("prompts.POST", u, None, None, body, "none")
       IN IF u = NoUser
          THEN Handle(r, Resp("unauthorized:chat", None), <<>>) /\ UNCHANGED prompts
          ELSE IF body = "malformed"
          THEN Handle(r, Resp("offline:chat", None), <<>>) /\ UNCHANGED prompts
          ELSE IF body = "invalid"
          THEN Handle(r, Resp("bad_request:api", None), <<>>) /\ UNCHANGED prompts
          ELSE IF ~db
          THEN /\ Handle(r, Resp("bad_request:database", None), <<"createSavedPrompt">>)
               /\ UNCHANGED prompts
          ELSE /\ PromptsOf(NoUser) # {}
               /\ LET p == CHOOSE q \in PromptsOf(NoUser) : TRUE
                  IN /\ Handle(r, Resp("201", Some(p)), <<"createSavedPrompt">>)
                     /\ prompts' = [prompts EXCEPT
                                      ![p] = [owner |-> u, title |-> "t0", useCount |-> 0]]
  /\ UNCHANGED <<store, titles, chatRun, context, tcIn, tcOut, isDevelopmentEnvironment>>

\* updateSavedPrompt({ id, userId, ... }) and deleteSavedPrompt({ id, userId }):
\* the row with this id and this userId, if there is one
Owned(id, userId) == prompts[id].owner = userId

\* PATCH /api/prompts/[id]
PromptPATCH ==
  /\ Accept
  /\ \E u \in Users \cup {NoUser}, id \in PromptIds, body \in Bodies, db \in BOOLEAN :
       LET r == ApiRequest("prompt.PATCH", u, None, Some(id), body, "none")
       IN IF u = NoUser
          THEN Handle(r, Resp("unauthorized:chat", None), <<>>) /\ UNCHANGED prompts
          ELSE IF body = "malformed"
          THEN Handle(r, Resp("offline:chat", None), <<>>) /\ UNCHANGED prompts
          ELSE IF body = "invalid"
          THEN Handle(r, Resp("bad_request:api", None), <<>>) /\ UNCHANGED prompts
          ELSE IF ~db
          THEN /\ Handle(r, Resp("bad_request:database", None), <<"updateSavedPrompt">>)
               /\ UNCHANGED prompts
          ELSE IF ~Owned(id, u)
          THEN /\ Handle(r, Resp("not_found:chat", None), <<"updateSavedPrompt">>)
               /\ UNCHANGED prompts
          ELSE /\ Handle(r, Resp("200", Some(id)), <<"updateSavedPrompt">>)
               /\ prompts' = [prompts EXCEPT ![id].title = "t1"]
  /\ UNCHANGED <<store, titles, chatRun, context, tcIn, tcOut, isDevelopmentEnvironment>>

\* the handler without its session test: session.user.id throws and the catch
\* answers offline
PromptDELETENoSessionCheck ==
  /\ Accept
  /\ \E u \in Users \cup {NoUser}, id \in PromptIds, db \in BOOLEAN :
       LET r == ApiRequest("prompt.DELETE", u, None, Some(id), "valid", "none")
       IN IF u = NoUser
          THEN Handle(r, Resp("offline:chat", None), <<>>) /\ UNCHANGED prompts
          ELSE IF ~db
          THEN /\ Handle(r, Resp("bad_request:database", None), <<"deleteSavedPrompt">>)
               /\ UNCHANGED prompts
          ELSE IF ~Owned(id, u)
          THEN /\ Handle(r, Resp("not_found:chat", None), <<"deleteSavedPrompt">>)
               /\ UNCHANGED prompts
          ELSE /\ Handle(r, Resp("200", Some(id)), <<"deleteSavedPrompt">>)
               /\ prompts' = [prompts EXCEPT ![id] = NoPrompt]
  /\ UNCHANGED <<store, titles, chatRun, context, tcIn, tcOut, isDevelopmentEnvironment>>

\* DELETE /api/prompts/[id]
PromptDELETE ==
  /\ Accept
  /\ \E u \in Users \cup {NoUser}, id \in PromptIds, db \in BOOLEAN :
       LET r == ApiRequest("prompt.DELETE", u, None, Some(id), "valid", "none")
       IN IF u = NoUser
          THEN Handle(r, Resp("unauthorized:chat", None), <<>>) /\ UNCHANGED prompts
          ELSE IF ~db
          THEN /\ Handle(r, Resp("bad_request:database", None), <<"deleteSavedPrompt">>)
               /\ UNCHANGED prompts
          ELSE IF ~Owned(id, u)
          THEN /\ Handle(r, Resp("not_found:chat", None), <<"deleteSavedPrompt">>)
               /\ UNCHANGED prompts
          ELSE /\ Handle(r, Resp("200", Some(id)), <<"deleteSavedPrompt">>)
               /\ prompts' = [prompts EXCEPT ![id] = NoPrompt]
  /\ UNCHANGED <<store, titles, chatRun, context, tcIn, tcOut, isDevelopmentEnvironment>>

\* incrementPromptUseCount({ id }): the row with this id, whoever owns it
PromptPOST ==
  /\ Accept
  /\ \E u \in Users \cup {NoUser}, id \in PromptIds, action \in {"use", "other"},
        db \in BOOLEAN :
       LET r == ApiRequest("prompt.POST", u, None, Some(id), "valid", action)
       IN IF u = NoUser
          THEN Handle(r, Resp("unauthorized:chat", None), <<>>) /\ UNCHANGED prompts
          ELSE IF action # "use"
          THEN Handle(r, Resp("bad_request:api", None), <<>>) /\ UNCHANGED prompts
          ELSE IF ~db
          THEN /\ Handle(r, Resp("bad_request:database", None),
                         <<"incrementPromptUseCount">>)
               /\ UNCHANGED prompts
          ELSE IF prompts[id].owner = NoUser
          THEN /\ Handle(r, Resp("not_found:chat", None), <<"incrementPromptUseCount">>)
               /\ UNCHANGED prompts
          ELSE /\ Handle(r, Resp("200", Some(id)), <<"incrementPromptUseCount">>)
               /\ prompts' = [prompts EXCEPT ![id].useCount = @ + 1]
  /\ UNCHANGED <<store, titles, chatRun, context, tcIn, tcOut, isDevelopmentEnvironment>>

\* what the transcription service answers: an error status, a text, or a text
\* with the seconds of audio used
WhisperAnswers == {"error", "text", "text+seconds"}

\* POST /api/transcribe
TranscribePOST ==
  /\ Accept
  /\ \E u \in Users \cup {NoUser}, audio \in BOOLEAN,
        chatId \in {None} \cup {Some(c) : c \in ChatIds},
        answer \in WhisperAnswers :
       LET r == ApiRequest("transcribe.POST", u, None, chatId,
                           IF audio THEN "valid" ELSE "invalid", "none")
       IN IF u = NoUser THEN Handle(r, Resp("unauthorized:chat", None), <<>>)
          ELSE IF ~audio THEN Handle(r, Resp("bad_request:api", None), <<>>)
          ELSE IF ~IsSome(chatId) THEN Handle(r, Resp("400", None), <<>>)
          ELSE IF answer = "error"
               THEN Handle(r, Resp("whisper-status", None), <<"fetch">>)
          ELSE IF answer = "text"
               THEN Handle(r, Resp("200", Some("text")), <<"fetch">>)
          ELSE Handle(r, Resp("200", Some("text")), <<"fetch", "saveTranscriptionUsage">>)
  /\ UNCHANGED <<store, titles, chatRun, context, tcIn, tcOut, prompts, isDevelopmentEnvironment>>

\* stream session registry
StreamIds == {1, 2}
ConversationIds == {"c1", "c2"}
Registered(sid) == \E s \in streams : s[1] = sid

\* register overwriting the association of a stream id already registered
RegisterStreamOverwrites ==
  /\ Accept
  /\ \E sid \in StreamIds, c \in ConversationIds :
       /\ Handle(ApiRequest("register", NoUser, None, Some(<<sid, c>>), "valid", "none"),
                 Resp("void", None), <<"createStreamId">>)
       /\ streams' = {s \in streams : s[1] # sid} \cup {<<sid, c>>}
  /\ UNCHANGED <<chats, messages, titles, chatRun, context, tcIn, tcOut, prompts,
                 isDevelopmentEnvironment>>

\* register(streamId, conversationId)
RegisterStream ==
  /\ Accept
  /\ \E sid \in StreamIds, c \in ConversationIds :
       /\ Handle(ApiRequest("register", NoUser, None, Some(<<sid, c>>), "valid", "none"),
                 Resp("void", None), <<"createStreamId">>)
       /\ streams' = IF Registered(sid) THEN streams ELSE streams \cup {<<sid, c>>}
  /\ UNCHANGED <<chats, messages, titles, chatRun, context, tcIn, tcOut, prompts,
                 isDevelopmentEnvironment>>

\* resume(streamId)
ResumeStream ==
  /\ Accept
  /\ \E sid \in StreamIds :
       Handle(ApiRequest("resume", NoUser, None, Some(sid), "valid", "none"),
              IF Registered(sid) THEN Resp("event-sequence", Some(sid))
              ELSE Resp("not-found", None),
              <<>>)
  /\ UNCHANGED <<store, titles, chatRun, context, tcIn, tcOut, prompts, isDevelopmentEnvironment>>

\* a call of getStreamContext, the export of the chat route, between requests:
\* a creation attempt is made exactly when the module holds no context
CallGetStreamContext ==
  /\ Accept
  /\ \E created \in CreateOutcomes :
       LET r == ApiRequest("getStreamContext", NoUser, None, None, "valid", "none")
           attempts == globalStreamContext = "null"
       IN /\ globalStreamContext' = getStreamContext(created)
          /\ Handle(r, Resp(IF attempts THEN created ELSE "cached",
                            Some(globalStreamContext')),
                    IF attempts THEN <<"createResumableStreamContext">> ELSE <<>>)
  /\ UNCHANGED <<store, titles, chatRun, redisUrl, tcIn, tcOut, prompts,
                 isDevelopmentEnvironment>>

ApiNext ==
  \/ ChatReject
  \/ ParseBody
  \/ Authenticate
  \/ AnalyticsGET
  \/ ChatDELETE
  \/ PromptsGET
  \/ PromptsPOST
  \/ PromptPATCH
  \/ PromptDELETE
  \/ PromptPOST
  \/ TranscribePOST
  \/ RegisterStream
  \/ ResumeStream
  \/ CallGetStreamContext

ApiSpec == ApiInit /\ [][ApiNext]_vars

\* ---------------------------------------------------------------- properties
Rejections == {"bad_request:api", "unauthorized:chat", "rate_limit:chat"}
Completed == pc = "done" /\ response = "stream"
Nz(x) == IF x = Absent THEN 0 ELSE x
InputEstimates ==
  {countTokens(convertToModelMessages(uiMessages), systemPrompt(req.selectedChatModel),
               req.selectedChatModel, ok) : ok \in BOOLEAN}
OutputEstimates ==
  {countOutputTokens(OutputText(finishedMessages), req.selectedChatModel, ok) :
     ok \in BOOLEAN}

C2_AtMostOneCommit ==
  /\ usageCalls <= 1
  /\ Len(usageLog) <= 1
  /\ \A i, j \in DOMAIN usageLog : usageLog[i].src = usageLog[j].src

\* the callback ran after onFinish read the cell: provider data is in the cell and
\* the only record is the estimated one
C2_Witness ==
  /\ usageState = "resolved"
  /\ IsSome(tokenUsageData)
  /\ Len(usageLog) = 1
  /\ usageLog[1].src = "fallback"

\* C3 as stated: whenever the usage promise resolved with totalTokens = N > 0, the
\* committed record carries N and the provider's input and output tokens.
C3_ProviderRecordWheneverResolved ==
  \A i \in DOMAIN usageLog :
    (usageState = "resolved" /\ IsSome(usageData) /\ usageData[1].totalTokens > 0)
    => usageLog[i].rec = [promptTokens |-> Nz(usageData[1].inputTokens),
                          completionTokens |-> Nz(usageData[1].outputTokens),
                          totalTokens |-> usageData[1].totalTokens]

\* C3 amended: when the usage promise had resolved with totalTokens = N > 0 by the
\* time onFinish read the usage cell, the committed record carries N and the
\* provider's input and output tokens, whatever the fallback estimate is.
C3_ProviderRecordIfResolvedBeforeRead ==
  \A i \in DOMAIN usageLog :
    (usageLog[i].at = "resolved" /\ IsSome(usageData) /\ usageData[1].totalTokens > 0)
    => /\ usageLog[i].src = "provider"
       /\ usageLog[i].rec = [promptTokens |-> Nz(usageData[1].inputTokens),
                             completionTokens |-> Nz(usageData[1].outputTokens),
                             totalTokens |-> usageData[1].totalTokens]

C3_Witness ==
  /\ Len(usageLog) = 1
  /\ usageLog[1].at = "resolved"
  /\ usageLog[1].rec.totalTokens = 150
  /\ IsSome(estimatedInputTokens)
  /\ estimatedInputTokens[1] # usageLog[1].rec.promptTokens

\* C4: when the usage promise resolved with totalTokens = 0 and the input estimate
\* is non-zero, the committed record is the fallback one: the held input estimate,
\* the estimated output tokens and their sum, never the provider's numbers.
C4_ZeroTotalUsesFallback ==
  \A i \in DOMAIN usageLog :
    (/\ usageState = "resolved" /\ IsSome(usageData) /\ usageData[1].totalTokens = 0
     /\ IsSome(estimatedInputTokens) /\ estimatedInputTokens[1] > 0)
    => /\ usageLog[i].src = "fallback"
       /\ usageLog[i].rec.promptTokens = estimatedInputTokens[1]
       /\ usageLog[i].rec.completionTokens \in OutputEstimates
       /\ usageLog[i].rec.totalTokens =
            usageLog[i].rec.promptTokens + usageLog[i].rec.completionTokens

C4_Witness ==
  /\ Len(usageLog) = 1
  /\ usageLog[1].at = "resolved"
  /\ IsSome(usageData) /\ usageData[1].totalTokens = 0
  /\ usageLog[1].src = "fallback"
  /\ usageLog[1].rec.totalTokens > 0

\* C5 as stated: every record committed on the fallback path has promptTokens equal
\* to the input estimate of the system prompt and the effective message list,
\* completionTokens equal to the estimate of the concatenated assistant text of the
\* finished set, and totalTokens their sum.
C5_FallbackRecordIsEstimate ==
  \A i \in DOMAIN usageLog :
    usageLog[i].src = "fallback"
    => /\ usageLog[i].rec.promptTokens \in InputEstimates
       /\ usageLog[i].rec.completionTokens \in OutputEstimates
       /\ usageLog[i].rec.totalTokens =
            usageLog[i].rec.promptTokens + usageLog[i].rec.completionTokens

\* C5 amended: as stated, except that promptTokens is 0 when execute threw before
\* the input estimate was computed.
C5_FallbackRecordIsEstimateOrZero ==
  /\ IsSome(estimatedInputTokens) => estimatedInputTokens[1] \in InputEstimates
  /\ \A i \in DOMAIN usageLog :
       usageLog[i].src = "fallback"
       => /\ usageLog[i].rec.promptTokens =
               (IF IsSome(estimatedInputTokens) THEN estimatedInputTokens[1] ELSE 0)
          /\ usageLog[i].rec.completionTokens \in OutputEstimates
          /\ usageLog[i].rec.totalTokens =
               usageLog[i].rec.promptTokens + usageLog[i].rec.completionTokens

C5_Witness ==
  /\ Len(usageLog) = 1
  /\ usageLog[1].src = "fallback"
  /\ IsSome(estimatedInputTokens)
  /\ usageLog[1].rec.completionTokens > 0
  /\ usageLog[1].rec.promptTokens > 0
  /\ \E i \in DOMAIN finishedMessages : finishedMessages[i].role = "user"

\* C6: saveTokenUsage is called only after every finished-message write of the
\* turn has completed: at no point has it been called while a finished message is
\* still unwritten or a finished-message write has thrown.
C6_UsageAfterMessages ==
  usageCalls > 0
  => /\ ~finErr
     /\ \A i \in DOMAIN finishedMessages :
          finishedMessages[i].id \in updated \cup inserted

C6_Witness ==
  /\ usageCalls = 1
  /\ isToolApprovalFlow
  /\ updated # {}
  /\ inserted # {}

\* C7: in a new-message request whose message has role user, the model is invoked
\* only after that message has been persisted.
C7_UserMessageBeforeModel ==
  (modelInvoked /\ HasUserMessage /\ ~isToolApprovalFlow)
  => /\ "message" \in writes
     /\ \E i \in DOMAIN messages :
          /\ messages[i].id = req.message[1].id
          /\ messages[i].parts = req.message[1].parts

C7_Witness == modelInvoked /\ HasUserMessage /\ "message" \in writes

\* C8: at completion reconciliation the new-message flow updates nothing; in the
\* tool-approval flow every finished message the loop has handled was updated iff
\* its id is in the input set of the turn and inserted otherwise, and no id was
\* both updated and inserted.
C8_UpdateIffInInput ==
  /\ ~isToolApprovalFlow => updated = {}
  /\ isToolApprovalFlow =>
       \A i \in DOMAIN finishedMessages :
         i < fi =>
           /\ finishedMessages[i].id \in updated
                <=> finishedMessages[i].id \in Ids(uiMessages)
           /\ finishedMessages[i].id \in inserted
                <=> finishedMessages[i].id \notin Ids(uiMessages)
  /\ updated \cap inserted = {}

\* an input message that is not stored was updated, and a new one inserted
C8_Witness ==
  /\ isToolApprovalFlow
  /\ pc = "done"
  /\ inserted # {}
  /\ \E id \in updated : id \notin Ids(messages)

\* C9: no message id is stored more than once, and every message of a completed
\* turn's finished set is in the store with its finished parts.
C9_NoDuplicateNoLoss ==
  /\ \A i, j \in DOMAIN messages : messages[i].id = messages[j].id => i = j
  /\ (Completed /\ ~finErr) =>
       \A k \in DOMAIN finishedMessages :
         \E i \in DOMAIN messages :
           /\ messages[i].id = finishedMessages[k].id
           /\ messages[i].parts = finishedMessages[k].parts

\* C10: a request is past the ownership check only if the chat does not exist or
\* is owned by the caller; a request on another user's chat ends forbidden, with
\* no write and no model invocation.
PastOwnership ==
  \/ pc \in {"saveUser", "streamId", "respond", "execute", "streaming", "onFinish",
             "commit"}
  \/ writes # {}
  \/ modelInvoked
  \/ response = "stream"
C10_OwnershipBeforeEffects ==
  /\ PastOwnership => chats[req.id] \in {NoUser, req.user}
  /\ response = "forbidden:chat" =>
       /\ chats[req.id] \notin {NoUser, req.user}
       /\ writes = {}
       /\ ~modelInvoked
       /\ pc = "done"
  /\ (pc = "done" /\ req.user # NoUser /\ chats[req.id] \notin {NoUser, req.user}) =>
       response \in Rejections \cup {"forbidden:chat"}

C10_Witness == response = "forbidden:chat" /\ nreq = 2

\* C11: a request rejected as invalid, unauthenticated or rate-limited has ended
\* with its structured error before any stream was created: no chat, message,
\* stream id or usage record was written, no title task was started and the
\* model was not invoked.
C11_RejectedBeforeAnyEffect ==
  response \in Rejections =>
    /\ pc = "done"
    /\ writes = {}
    /\ <<nreq, req.id>> \notin streams
    /\ usageCalls = 0 /\ usageLog = <<>>
    /\ ~modelInvoked
    /\ titleTask = "none"
    /\ emitted = <<>> /\ backend = "none" /\ onFinishRuns = 0

C11_Witness == response = "rate_limit:chat" /\ nreq = 2 /\ messages # <<>>

\* C12: once the caller has disconnected after streaming started, the model
\* stream is still drained and finalization eventually runs: onFinish is entered,
\* persists the finished messages and commits the usage; onFinish runs once and
\* saveTokenUsage is called once per request.
C12_FinalizationAfterDisconnect ==
  /\ [](onFinishRuns <= 1 /\ usageCalls <= 1)
  /\ (~connected) ~> (/\ pc = "done"
                      /\ onFinishRuns = 1
                      /\ ~finErr => usageCalls = 1)

C12_Witness ==
  /\ ~connected
  /\ Completed
  /\ onFinishRuns = 1
  /\ inserted # {}
  /\ Len(usageLog) = 1

\* C13: when the model call fails during emission the stream carries exactly one
\* error event, the response stays the stream (no exception escapes), and
\* onFinish still runs, once, and attempts to persist the finished messages.
ErrorEvents == Cardinality({i \in DOMAIN emitted : emitted[i] = onError})
C13_ModelFailureOneErrorEvent ==
  /\ ErrorEvents <= 1
  /\ modelFailed =>
       /\ ErrorEvents = 1
       /\ response = "stream"
       /\ pc \in {"streaming", "onFinish", "commit", "done"}
       /\ pc = "streaming" => ENABLED StreamFinish
       /\ pc # "streaming" => onFinishRuns = 1
       /\ (pc \in {"commit", "done"} /\ finishedMessages # <<>>) =>
            ("finished" \in writes \/ finErr)

C13_Witness ==
  /\ modelFailed
  /\ Completed
  /\ emitted = <<"delta", "error">>
  /\ inserted # {}

\* C14: when saveTokenUsage failed, on the provider path or the fallback path, the
\* failure was caught inside onFinish: the request ended normally with its stream
\* response, the messages it persisted are still stored, and saveTokenUsage was
\* not called a second time.
UsageWriteFailed == usageCalls >= 1 /\ usageLog = <<>>
C14_UsageFailureCaught ==
  UsageWriteFailed =>
    /\ usageCalls = 1
    /\ pc = "done" /\ response = "stream" /\ ~finErr
    /\ "usage" \notin writes
    /\ inserted \subseteq Ids(messages)
    /\ "message" \in writes => req.message[1].id \in Ids(messages)

C14_Witness ==
  /\ UsageWriteFailed
  /\ IsSome(tokenUsageData)
  /\ "message" \in writes
  /\ inserted # {}

\* C15 as stated: a finished-message write that fails after streaming has begun
\* is swallowed: the request still ends with its stream response and the
\* remaining finalization step, the usage commit, still runs.
C15_FinishedWriteFailureSwallowed ==
  /\ finErr => response = "stream"
  /\ (finErr /\ pc = "done") => usageCalls = 1

\* C16: the request takes the tool-approval flow exactly when it carries a full
\* message set; there the input of the model is the supplied set, in order, and
\* the stored history is not fetched; in the new-message flow the input is the
\* stored history of the chat as it was before this request, followed by the one
\* new message.
InputChosen ==
  \/ pc \in {"saveUser", "streamId", "respond", "execute", "streaming", "onFinish",
             "commit"}
  \/ Completed
PriorHistory ==
  SelectSeq(History(req.id),
            LAMBDA m : /\ m.id \notin inserted
                       /\ ~("message" \in writes /\ m.id = req.message[1].id))
C16_InputByFlow ==
  /\ isToolApprovalFlow <=> IsSome(req.messages)
  /\ InputChosen =>
       /\ isToolApprovalFlow => (uiMessages = req.messages[1] /\ ~fetched)
       /\ ~isToolApprovalFlow => uiMessages = PriorHistory \o req.message
       /\ modelInvoked => estimatedInputTokens[1] \in InputEstimates

C16_Witness ==
  /\ isToolApprovalFlow
  /\ modelInvoked
  /\ History(req.id) # <<>>
  /\ Len(uiMessages) > Len(History(req.id))
  /\ pc = "streaming"

\* C17 as stated: a request with a user message for a chat that does not exist
\* creates the chat, owned by the caller and with the placeholder title, before
\* streaming, and starts the title task without waiting for it; once the result
\* of the task has arrived the title is persisted and a title event has been
\* emitted in the stream.
ChatCreated == "chat" \in writes
TitleEmitted == \E i \in DOMAIN emitted : emitted[i] = "title"
C17_TitlePersistedAndEmitted ==
  /\ ChatCreated =>
       /\ chats[req.id] = req.user
       /\ titleTask # "none"
       /\ titleTask = "pending" => titles[req.id] = "New chat"
  /\ (response = "stream" /\ HasUserMessage /\ ~ChatCreated) => titleTask = "none"
  /\ titleTask = "resolved" => (titles[req.id] = "generated" /\ TitleEmitted)

\* the part of C17 the route does guarantee
C17_PlaceholderAndPersisted ==
  /\ ChatCreated =>
       /\ chats[req.id] = req.user
       /\ titleTask # "none"
       /\ titleTask = "pending" => titles[req.id] = "New chat"
  /\ titleTask = "resolved" => titles[req.id] = "generated"

\* C18: a request emits at most one title event, and only if it created the
\* chat; the event may come before or after the content deltas.
TitleEvents == Cardinality({i \in DOMAIN emitted : emitted[i] = "title"})
C18_TitleEventOnceForCreator ==
  /\ TitleEvents <= 1
  /\ TitleEmitted => (ChatCreated /\ titleTask = "resolved")
  /\ (response = "stream" /\ ~ChatCreated) => ~TitleEmitted

C18_Witness == emitted = <<"delta", "title">> /\ Completed

\* the title event ahead of the first content delta
C18_TitleFirst == emitted = <<"title", "delta">> /\ Completed

\* C19: every request that reaches streaming has generated a stream id no other
\* request has and has persisted its association with the chat before the
\* emission pipeline is created and before any event is emitted.
PipelineCreated ==
  \/ pc \in {"execute", "streaming", "onFinish", "commit"}
  \/ response = "stream"
C19_StreamIdBeforePipeline ==
  /\ (PipelineCreated \/ emitted # <<>> \/ modelInvoked) =>
       (<<nreq, req.id>> \in streams /\ "stream" \in writes)
  /\ pc = "streamId" => \A s \in streams : s[1] # nreq
  /\ \A s, t \in streams : s[1] = t[1] => s = t

C19_Witness ==
  /\ pc = "streaming"
  /\ emitted = <<"delta">>
  /\ streams = {<<1, req.id>>, <<2, req.id>>}

\* C20: when the resumable-stream backend is unavailable (no context could be
\* created, resumableStream returned no stream, or it threw) the POST call still
\* returns the stream itself, not an error response, and the pipeline goes on.
BackendUnavailable == backend \in {"no-context", "no-stream", "threw"}
Ceiling == entitlementsByUserType(userType(req.user))
C21_RateLimitAtCeilingOfTier ==
  /\ messageCount # Absent =>
       /\ messageCount > Ceiling =>
            /\ response = "rate_limit:chat" /\ pc = "done"
            /\ writes = {} /\ ~modelInvoked /\ uiMessages = <<>>
       /\ messageCount <= Ceiling => (response = "none" /\ pc = "owner")
  /\ response = "rate_limit:chat" => (messageCount # Absent /\ messageCount > Ceiling)

C21_Witness ==
  /\ response = "rate_limit:chat"
  /\ userType(req.user) = "regular"
  /\ messageCount = Ceiling + 1
  /\ messages # <<>>

\* C30: a usage record committed while the provider's usage promise had not
\* resolved is the fallback estimate; once a request has committed its record, a
\* later resolution of the promise adds no record and leaves the record as it is.
C30_LateUsageChangesNothing ==
  /\ [](/\ Len(usageLog) <= 1
        /\ \A i \in DOMAIN usageLog :
             usageLog[i].at # "resolved" =>
               /\ usageLog[i].src = "fallback"
               /\ usageLog[i].rec.promptTokens =
                    (IF IsSome(estimatedInputTokens) THEN estimatedInputTokens[1] ELSE 0)
               /\ usageLog[i].rec.completionTokens \in OutputEstimates)
  /\ [][(usageLog # <<>> /\ nreq' = nreq) =>
          (usageLog' = usageLog /\ usageCalls' = usageCalls)]_vars

C30_Witness ==
  /\ Completed
  /\ Len(usageLog) = 1
  /\ usageLog[1].at = "pending"
  /\ usageLog[1].src = "fallback"
  /\ usageState = "resolved"
  /\ IsSome(tokenUsageData)

\* ---------------------------------------------------------------- token counter properties
SingleDone == tcOut.op \in {"countOutputTokens", "countTextTokens"}
ConvDone == tcOut.op = "countTokens"
FamilyDone == tcOut.op = "getEncodingModelName"

\* v is the least integer with 4 * v >= n
IsCeilOfQuarter(v, n) == v \in Nat /\ 4 * v >= n /\ 4 * (v - 1) < n

\* C22: the estimate of a single text is a non-negative integer; when the
\* encoding throws it is the text length divided by 4, rounded up; the estimate
\* of the empty text is 0 whether the encoding works or throws.
C22_SingleTextEstimate ==
  SingleDone =>
    /\ tcOut.val \in Nat
    /\ ~tcIn.encOk => IsCeilOfQuarter(tcOut.val, Len(tcIn.text))
    /\ tcIn.text = <<>> => tcOut.val = 0

C22_Witness ==
  /\ tcOut.op = "countOutputTokens" /\ ~tcIn.encOk
  /\ Len(tcIn.text) = 3 /\ tcOut.val = 1

\* the positions <<message, part>> of the text parts of a conversation
TextPositions(msgs) ==
  {p \in (DOMAIN msgs) \X (1 .. 2) :
     p[2] \in DOMAIN msgs[p[1]].parts /\ msgs[p[1]].parts[p[2]].type = "text"}

RECURSIVE SumAt(_, _)
SumAt(f, S) ==
  IF S = {} THEN 0
  ELSE LET p == CHOOSE q \in S : TRUE IN f[p] + SumAt(f, S \ {p})

\* the conversation with every non-text part removed
WithoutNonText(msgs) ==
  [i \in DOMAIN msgs |->
     [msgs[i] EXCEPT !.parts = SelectSeq(@, LAMBDA part : part.type = "text")]]

\* C23: when the encoding works, the conversation estimate is the encoded
\* length of the system prompt, plus the encoded length of every text part of
\* every message, plus 4 for each message, plus 3 once; the parts that are not
\* text add nothing, so the conversation without them has the same estimate.
C23_ConversationEstimate ==
  (ConvDone /\ tcIn.encOk) =>
    LET name == getEncodingModelName(tcIn.modelId[1])
        at == [p \in TextPositions(tcIn.msgs) |->
                 encodeLength(name, tcIn.msgs[p[1]].parts[p[2]].text)]
    IN /\ tcOut.val = encodeLength(name, tcIn.sys)
                      + SumAt(at, TextPositions(tcIn.msgs))
                      + 4 * Len(tcIn.msgs) + 3
       /\ tcOut.val = countTokens(WithoutNonText(tcIn.msgs), tcIn.sys,
                                  tcIn.modelId[1], TRUE)

C23_Witness ==
  /\ ConvDone /\ tcIn.encOk /\ Len(tcIn.sys) = 5 /\ tcIn.modelId = Some(<<"gpt-4">>)
  /\ Len(tcIn.msgs) = 2
  /\ tcIn.msgs[1].parts = <<ToolPart("result"), TextPart(<<"b", "a", "b">>)>>
  /\ tcIn.msgs[2].parts = <<ToolPart("result"), ToolPart("result")>>
  /\ tcOut.val = 3 + 2 + 8 + 3

\* C24: when the encoding is unavailable or throws, the conversation estimate
\* is the number of characters of the system prompt and of all text parts,
\* divided by 4 and rounded up; every conversation call returns, with a
\* non-negative integer, the empty prompt with no message included.
C24_ConversationFallback ==
  /\ (tcIn.op = "countTokens" /\ tcOut.op = "none") => ENABLED CallCountTokens
  /\ ConvDone => tcOut.val \in Nat
  /\ (ConvDone /\ ~tcIn.encOk) =>
       LET at == [p \in TextPositions(tcIn.msgs) |->
                    Len(tcIn.msgs[p[1]].parts[p[2]].text)]
       IN IsCeilOfQuarter(tcOut.val,
                          Len(tcIn.sys) + SumAt(at, TextPositions(tcIn.msgs)))
  /\ (ConvDone /\ ~tcIn.encOk /\ tcIn.sys = <<>> /\ tcIn.msgs = <<>>) => tcOut.val = 0

C24_Witness ==
  /\ ConvDone /\ ~tcIn.encOk /\ Len(tcIn.sys) = 5
  /\ Len(tcIn.msgs) = 2
  /\ tcIn.msgs[1].parts = <<TextPart(<<"a", "b">>), ToolPart("result")>>
  /\ tcIn.msgs[2].parts = <<TextPart(<<"b", "a", "b">>)>>
  /\ tcOut.val = 3

HasFragment(frag) == frag \in {tcIn.modelId[1][i] : i \in DOMAIN tcIn.modelId[1]}

\* C25: every model id is mapped to a table: to the gpt-4 table when it contains
\* "gpt-4", otherwise to the gpt-3.5 table when it contains "gpt-3.5", and to
\* the gpt-4 table in every other case.
C25_ModelFamilyMapping ==
  /\ (tcIn.op = "getEncodingModelName" /\ tcOut.op = "none")
       => ENABLED CallGetEncodingModelName
  /\ FamilyDone =>
       /\ tcOut.val \in {"gpt-4", "gpt-3.5-turbo"}
       /\ HasFragment("gpt-4") => tcOut.val = "gpt-4"
       /\ (~HasFragment("gpt-4") /\ HasFragment("gpt-3.5")) => tcOut.val = "gpt-3.5-turbo"
       /\ (~HasFragment("gpt-4") /\ ~HasFragment("gpt-3.5")) => tcOut.val = "gpt-4"

C25_Witness ==
  FamilyDone /\ tcIn.modelId = Some(<<"gpt-3.5", "gpt-4">>) /\ tcOut.val = "gpt-4"

\* ---------------------------------------------------------------- properties of the other endpoints
EndpointOps == {"analytics.GET", "chat.DELETE", "prompts.GET", "prompts.POST",
                "prompt.PATCH", "prompt.DELETE", "prompt.POST", "transcribe.POST"}

\* C26: registering a stream id that is already registered leaves every stored
\* association of a stream id with a conversation as it was, and resuming a
\* stream id that was never registered answers not-found, never an exception.
C26_RegistryIdempotent ==
  /\ [](apiReq.op = "resume" =>
          /\ apiResp.status \in {"event-sequence", "not-found"}
          /\ apiResp.status = "not-found" <=> ~Registered(apiReq.id[1]))
  /\ [][(nreq' # nreq /\ apiReq'.op = "register" /\ Registered(apiReq'.id[1][1]))
          => streams' = streams]_vars

C26_Witness ==
  /\ apiReq.op = "register" /\ apiReq.id = Some(<<1, "c2">>)
  /\ nreq = 2 /\ streams = {<<1, "c1">>}

\* the caller the analytics endpoint is to serve: a session user, and in
\* production an email ending in the admin domain
AnalyticsAllowed ==
  /\ apiReq.user # NoUser
  /\ \/ isDevelopmentEnvironment
     \/ IsSome(apiReq.email) /\ endsWith(apiReq.email[1], AdminDomain)

\* C27: the analytics endpoint returns usage data only to a session user who,
\* in production, has an email ending in @fddigital.com; in development every
\* session user is allowed; every other caller gets unauthorized or forbidden
\* and no data.
C27_AnalyticsAccess ==
  apiReq.op = "analytics.GET" =>
    /\ IsSome(apiResp.data) => AnalyticsAllowed
    /\ AnalyticsAllowed => apiResp.status \notin {"unauthorized:chat", "forbidden:chat"}
    /\ ~AnalyticsAllowed =>
         /\ apiResp.status \in {"unauthorized:chat", "forbidden:chat"}
         /\ apiResp.data = None

\* a request without a session user has been answered
NoSessionAnswered == apiReq.op \in EndpointOps /\ apiReq.user = NoUser
ChatNoSessionAnswered == pc = "done" /\ nreq > 0 /\ req.user = NoUser

\* C28 as stated: every endpoint answers a request without a session user with
\* an unauthorized error, before any persistence write or external call.
C28_UnauthorizedEverywhere ==
  /\ NoSessionAnswered => (apiResp.status = "unauthorized:chat" /\ apiCalls = <<>>)
  /\ ChatNoSessionAnswered =>
       (response = "unauthorized:chat" /\ writes = {} /\ ~modelInvoked)

\* C28 amended: every endpoint rejects a request without a session user before
\* any persistence write or external call, with an unauthorized error, except
\* that chat DELETE answers bad_request when the id is missing and chat POST
\* answers bad_request when the body does not parse, both tested before the
\* session.
C28_RejectedBeforeAnyCall ==
  /\ NoSessionAnswered =>
       /\ apiCalls = <<>>
       /\ apiResp.data = None
       /\ IF apiReq.op = "chat.DELETE" /\ ~IsSome(apiReq.id)
          THEN apiResp.status = "bad_request:api"
          ELSE apiResp.status = "unauthorized:chat"
  /\ ChatNoSessionAnswered =>
       /\ response \in {"unauthorized:chat", "bad_request:api"}
       /\ writes = {} /\ ~modelInvoked /\ uiMessages = <<>>

C28_Witness ==
  /\ apiReq.op = "transcribe.POST" /\ apiReq.user = NoUser /\ apiReq.body = "valid"
  /\ IsSome(apiReq.id) /\ apiResp.status = "unauthorized:chat" /\ apiCalls = <<>>

\* C29: saved prompts are scoped to the session user: the listing holds the
\* caller's prompts only, and no update, delete or use of a prompt by one user
\* changes a prompt another user owns.
C29_PromptsScopedToUser ==
  /\ []((apiReq.op = "prompts.GET" /\ IsSome(apiResp.data)) =>
          \A p \in apiResp.data[1] : prompts[p].owner = apiReq.user)
  /\ [][\A p \in PromptIds :
          (/\ nreq' # nreq
           /\ apiReq'.op \in {"prompt.PATCH", "prompt.DELETE", "prompt.POST"}
           /\ prompts[p].owner # NoUser
           /\ prompts[p].owner # apiReq'.user)
          => prompts'[p] = prompts[p]]_vars

\* ---------------------------------------------------------------- the usage cell
\* C31: within a request the usage cell is assigned at most once, by the callback
\* of the usage promise only and with a total above 0 only; the record is chosen
\* from it inside onFinish only, after the pipeline ended; so every record
\* committed on the provider path has a total above 0.
C31_UsageCellSetOnce ==
  /\ [](/\ IsSome(tokenUsageData) =>
             (usageState = "resolved" /\ tokenUsageData[1].totalTokens > 0)
        /\ usageCalls > 0 => onFinishRuns >= 1
        /\ \A i \in DOMAIN usageLog :
             usageLog[i].src = "provider" =>
               /\ usageLog[i].rec.totalTokens > 0
               /\ tokenUsageData = Some(usageLog[i].rec))
  /\ [][(tokenUsageData' # tokenUsageData /\ nreq' = nreq) =>
          /\ tokenUsageData = None
          /\ usageState = "pending" /\ usageState' = "resolved"
          /\ tokenUsageData'[1].totalTokens > 0]_vars

C31_Witness ==
  /\ Completed
  /\ Len(usageLog) = 1
  /\ usageLog[1].src = "provider"
  /\ usageLog[1].rec = [promptTokens |-> 5, completionTokens |-> 7, totalTokens |-> 12]

\* the usage object as the callback reads it: absent counts are 0, an absent
\* total is the sum of the two
SignalTotal(u) ==
  IF u.totalTokens = Absent THEN Nz(u.inputTokens) + Nz(u.outputTokens)
  ELSE u.totalTokens

\* C33: the callback of the usage promise takes absent input and output counts
\* as 0 and an absent total as their sum; it adopts the signal exactly when that
\* total is above 0, so a signal with an explicit total of 0 is not adopted even
\* when its input or output count is not 0, and a null signal is not adopted.
C33_SignalAdoptedIffPositive ==
  usageState = "resolved" =>
    /\ IsSome(tokenUsageData) <=> (IsSome(usageData) /\ SignalTotal(usageData[1]) > 0)
    /\ IsSome(tokenUsageData) =>
         tokenUsageData[1] = [promptTokens |-> Nz(usageData[1].inputTokens),
                              completionTokens |-> Nz(usageData[1].outputTokens),
                              totalTokens |-> SignalTotal(usageData[1])]

C33_Witness ==
  /\ usageState = "resolved"
  /\ usageData = Some([inputTokens |-> 5, outputTokens |-> 7, totalTokens |-> 0])
  /\ tokenUsageData = None
  /\ pc = "streaming"

\* the finished messages that were not in the input set, and whether every
\* finished message of the input set is as it was in the input
ProducedThisTurn == SelectSeq(finishedMessages, LAMBDA m : m.id \notin Ids(uiMessages))
InputUntouched ==
  \A k \in DOMAIN finishedMessages :
    finishedMessages[k].id \in Ids(uiMessages) =>
      \E j \in DOMAIN uiMessages : uiMessages[j] = finishedMessages[k]

\* C32: on the fallback path completionTokens is the estimate of the text of the
\* assistant messages produced in this turn; the assistant messages that were
\* already in the input set, as in a tool-approval continuation, add nothing.
C32_OutputOfThisTurnOnly ==
  \A i \in DOMAIN usageLog :
    (usageLog[i].src = "fallback" /\ InputUntouched) =>
      usageLog[i].rec.completionTokens \in
        {countOutputTokens(OutputText(ProducedThisTurn), req.selectedChatModel, ok) :
           ok \in BOOLEAN}

\* C35: whenever a chat request has registered a stream id or invoked the model,
\* the conversation with the request's id exists and is owned by the caller; a
\* request for a conversation that does not exist, which is a tool-approval
\* continuation or whose new message is not a user message, does not come to
\* register a stream id without a conversation record.
C35_StreamOnlyForOwnedChat ==
  ("stream" \in writes \/ modelInvoked) => chats[req.id] = req.user

\* C36: when the usage promise rejects, the rejection is caught and the request
\* is not failed: it keeps its stream response, and its finalization commits
\* exactly one usage record, the fallback estimate.
C36_RejectedSignalStillCommits ==
  usageState = "rejected" =>
    /\ response = "stream"
    /\ tokenUsageData = None
    /\ pc = "done" =>
         /\ Len(usageLog) = 1
         /\ usageLog[1].src = "fallback"
         /\ usageLog[1].rec.promptTokens =
              (IF IsSome(estimatedInputTokens) THEN estimatedInputTokens[1] ELSE 0)
         /\ usageLog[1].rec.completionTokens \in OutputEstimates

\* C38: the pre-stream checks of the chat POST run in the order body validation,
\* authentication, rate limit, ownership, and the first failing check decides the
\* response and ends the request: an invalid body is answered before the session
\* is looked at, a caller without a session before the message count is read, a
\* caller over the ceiling with the rate-limit error whoever owns the addressed
\* chat, and the forbidden error goes only to a signed-in caller within the
\* ceiling. The step that rejects changes nothing in the store, writes nothing
\* and leaves the model uninvoked.
PreStream == {"parse", "auth", "rate", "owner"}
C38_ChecksInOrder ==
  [][/\ (pc = "parse" /\ pc' # pc) =>
          \/ pc' = "auth" /\ response' = "none"
          \/ pc' = "done" /\ response' = "bad_request:api"
     /\ (pc = "auth" /\ pc' # pc) =>
          /\ messageCount' = Absent
          /\ IF req.user = NoUser
             THEN pc' = "done" /\ response' = "unauthorized:chat"
             ELSE pc' = "rate" /\ response' = "none"
     /\ (pc = "rate" /\ pc' # pc) =>
          /\ req.user # NoUser
          /\ IF messageCount' > Ceiling
             THEN pc' = "done" /\ response' = "rate_limit:chat"
             ELSE pc' = "owner" /\ response' = "none"
     /\ (pc = "owner" /\ pc' # pc) =>
          /\ req.user # NoUser
          /\ messageCount # Absent /\ messageCount <= Ceiling
          /\ response = "none"
          /\ IF chats[req.id] \notin {NoUser, req.user}
             THEN pc' = "done" /\ response' = "forbidden:chat"
             ELSE \/ pc' = "saveUser" /\ response' = "none"
                  \/ pc' = "done" /\ response' = "bad_request:database"
     /\ (pc \in PreStream /\ pc' = "done") =>
          /\ store' = store /\ titles' = titles
          /\ writes' = {} /\ ~modelInvoked' /\ titleTask' = "none"
          /\ usageCalls' = 0 /\ emitted' = <<>>
    ]_vars

C38_Witness ==
  /\ pc = "done"
  /\ response = "rate_limit:chat"
  /\ chats[req.id] \notin {NoUser, req.user}
  /\ messageCount > Ceiling
  /\ writes = {}

\* C37: chat DELETE removes a conversation only when it exists and its owner is
\* the caller, and then removes that conversation alone; for a missing id
\* parameter, a caller without a session, a conversation that does not exist or
\* one owned by someone else it answers with an error and leaves the persisted
\* state as it was.
ChatDELETEStep == nreq' # nreq /\ pc' = pc /\ apiReq'.op = "chat.DELETE"
C37_DeleteOnlyOwnChat ==
  [][ChatDELETEStep =>
       LET r == apiReq'
           refused == \/ ~IsSome(r.id)
                      \/ r.user = NoUser
                      \/ chats[r.id[1]] # r.user
       IN /\ refused =>
               /\ UNCHANGED <<store, titles>>
               /\ IF ~IsSome(r.id)
                  THEN apiResp'.status = "bad_request:api" /\ apiCalls' = <<>>
                  ELSE IF r.user = NoUser
                  THEN apiResp'.status = "unauthorized:chat" /\ apiCalls' = <<>>
                  ELSE /\ apiResp'.status \in {"forbidden:chat", "unhandled"}
                       /\ apiCalls' = <<"getChatById">>
          /\ (store' # store \/ titles' # titles) =>
               /\ ~refused
               /\ apiResp'.status = "200"
               /\ chats' = [chats EXCEPT ![r.id[1]] = NoUser]
               /\ \A k \in DOMAIN messages' : messages'[k].chatId # r.id[1]
          /\ apiResp'.status = "200" => chats'[r.id[1]] = NoUser
     ]_vars

C37_Witness ==
  /\ apiReq.op = "chat.DELETE"
  /\ apiResp.status = "forbidden:chat"
  /\ apiReq.user = "u1"
  /\ chats[apiReq.id[1]] = NoUser
  /\ nreq = 2

\* C34: the stream context is initialized once for the process: a call of
\* getStreamContext made when a context exists returns that context and creates
\* no other, and a call that follows a creation failed for the missing REDIS_URL
\* makes no further creation attempt.
GetStreamContextStep == nreq' # nreq /\ pc' = pc /\ apiReq'.op = "getStreamContext"
FailedForRedisUrl == apiReq.op = "getStreamContext" /\ apiResp.status = "REDIS_URL"
C34_StreamContextInitOnce ==
  [][GetStreamContextStep =>
       /\ globalStreamContext = "ctx" =>
            /\ apiCalls' = <<>>
            /\ apiResp'.data = Some("ctx")
            /\ globalStreamContext' = "ctx"
       /\ FailedForRedisUrl => apiCalls' = <<>>
    ]_vars

====
